---- MODULE Spec2Model ----
(***************************************************************************)
(* Model of the embedded progress store of src-tauri/src/commands:         *)
(* content / module / quiz-attempt progress and the completion cascade of  *)
(* progress.rs, the sync outbox of sync.rs (SpecSync), and the offline     *)
(* sessions and media cache of offline.rs (SpecSessions, SpecMedia).       *)
(* Every table is a set of rows (records); a handler is one                *)
(* action in the one-call-at-a-time specifications (Spec, SpecMarks) and   *)
(* one action per SQL statement in the statement-level specifications      *)
(* (SpecSteps, SpecConc): get_connection opens a fresh auto-commit         *)
(* connection per call and no handler opens a transaction.                 *)
(*                                                                         *)
(* Columns kept per table are the ones the handlers of progress.rs read or *)
(* decide on; created_at / updated_at / last_synced_at of the progress     *)
(* tables are bookkeeping columns no handler reads and are not modelled.   *)
(* Timestamps are points of a bounded logical clock; NULL is <<>> and a    *)
(* set value t is <<t>>.                                                   *)
(***************************************************************************)
EXTENDS Integers, Sequences, FiniteSets, TLC

VARIABLES
    users,             \* table users            : rows [id]
    enrollments,       \* table enrollments      : rows [id, student_id, course_id, created_at, updated_at]
    modules,           \* table modules          : rows [id, course_id, has_quiz]
    content_blocks,    \* table content_blocks   : rows [id, module_id]
    quizzes,           \* table quizzes          : rows [id, module_id]
    content_progress,  \* table content_progress : rows [id, enrollment_id, content_id, is_completed, viewed_at, completed_at]
    module_progress,   \* table module_progress  : rows [id, enrollment_id, module_id, status, started_at, completed_at, auto_completed, content_completion_percentage, completed_content_count, total_content_count]
    quiz_attempts,     \* table quiz_attempts    : rows [id, student_id, quiz_id, attempt_number, status, passed]
    clock,             \* the wall clock read by chrono::Utc::now()
    last,              \* the last handler that returned: [op, arg (its inputs), ok, now,
                       \*   again (the successful call before it was the same call)]
    calls,             \* statement-level specifications: the frame of each running call
    snapshot,          \* statement-level specifications: the tables when the running call began
    sync_queue,        \* table sync_queue : rows [id, operation_type, table_name, record_id, data,
                       \*   created_at, retry_count, last_retry_at, error_message]
    sqlite_sequence,   \* the last rowid given to a sync_queue row
    tie_order,         \* how the engine orders rows of equal ORDER BY key
    offline_sessions,  \* table offline_sessions : rows [id, student_id, course_id, expires_at,
                       \*   last_synced_at, sync_count, is_deleted, updated_at]
    media_cache,       \* table media_cache : rows [media_id, course_id, is_downloaded, download_progress]
    offline_progress_batch,  \* table offline_progress_batch : rows [id, session_id, course_id,
                       \*   created_at, synced, synced_at]
    batch_sequence     \* the last rowid given to an offline_progress_batch row

vars == <<users, enrollments, modules, content_blocks, quizzes, content_progress,
          module_progress, quiz_attempts, clock, last, calls, snapshot,
          sync_queue, sqlite_sequence, tie_order, offline_sessions, media_cache,
          offline_progress_batch, batch_sequence>>

batches == <<offline_progress_batch, batch_sequence>>

offline == <<offline_sessions, media_cache, batches>>

outbox == <<sync_queue, sqlite_sequence, tie_order>>

catalog == <<users, modules, content_blocks, quizzes>>

----------------------------------------------------------------------------
(* Bounds *)

MaxBlocks == 2
MaxClock == 1
MaxItems == 2
MaxRetries == 2
MaxSyncs == 2

----------------------------------------------------------------------------
(* Values *)

Null == <<>>
Some(t) == <<t>>

\* the offline_sessions, media_cache and offline_progress_batch tables of a
\* fresh database
EmptyOffline ==
    /\ offline_sessions = {}
    /\ media_cache = {}
    /\ offline_progress_batch = {}
    /\ batch_sequence = 0

\* the sync_queue table of a fresh database
EmptyOutbox ==
    /\ sync_queue = {}
    /\ sqlite_sequence = 0
    /\ tie_order = "rowid ascending"

NoCall == [op |-> "none", arg |-> <<>>, ok |-> TRUE, now |-> 0, again |-> FALSE]

ContentIds == 1 .. MaxBlocks
Statuses == {"not_started", "in_progress", "completed"}

\* format!("cp_{}_{}", enrollment_id, content_id)
progress_id(enrollment_id, content_id) == <<"cp", enrollment_id, content_id>>

\* later instants the wall clock may show when a handler reads it
Now == clock .. MaxClock

----------------------------------------------------------------------------
(* Queries of mark_content_as_viewed / mark_content_as_completed *)

\* SELECT module_id FROM content_blocks WHERE id = ?1
module_of(content_id) == {cb.module_id : cb \in {b \in content_blocks : b.id = content_id}}

\* a lookup that falls back to a course when the module row is missing
\* (unwrap_or instead of map_err(...)?)
course_of_defaulting(module_id) ==
    IF \E x \in modules : x.id = module_id
    THEN {m.course_id : m \in {x \in modules : x.id = module_id}}
    ELSE {"k1"}

\* SELECT course_id FROM modules WHERE id = ?1
course_of(module_id) == {m.course_id : m \in {x \in modules : x.id = module_id}}

\* a lookup without its ORDER BY: any enrollment of the course may come first
enrollment_of_any(course_id) ==
    {e.id : e \in {x \in enrollments :
                     x.course_id = course_id /\ \E u \in users : u.id = x.student_id}}

\* SELECT e.id FROM enrollments e JOIN users u ON e.student_id = u.id
\*  WHERE e.course_id = ?1 ORDER BY e.created_at DESC LIMIT 1
\* (every row of the latest created_at is a possible first row)
enrollment_of(course_id) ==
    LET joined == {e \in enrollments :
                     e.course_id = course_id /\ \E u \in users : u.id = e.student_id}
    IN  {e.id : e \in {x \in joined : \A y \in joined : y.created_at <= x.created_at}}

\* STEPs 1-3: the (module, course, enrollment) triples the three lookups can yield;
\* empty when one of them fails ("Content not found", "Module not found",
\* "Enrollment not found")
Resolve(content_id) ==
    UNION {UNION {{<<m, k, e>> : e \in enrollment_of(k)} : k \in course_of(m)} :
           m \in module_of(content_id)}

\* SELECT is_completed, completed_at FROM content_progress
\*  WHERE enrollment_id = ?1 AND content_id = ?2
existing(cp, enrollment_id, content_id) ==
    {r \in cp : r.enrollment_id = enrollment_id /\ r.content_id = content_id}

----------------------------------------------------------------------------
(* Statements of mark_content_as_viewed *)

\* a view that writes the row back as not completed (is_completed = 0 in the
\* DO UPDATE SET list)
upsert_viewed_resetting(cp, enrollment_id, content_id, now) ==
    (cp \ existing(cp, enrollment_id, content_id))
    \cup {[id            |-> progress_id(enrollment_id, content_id),
           enrollment_id |-> enrollment_id,
           content_id    |-> content_id,
           is_completed  |-> FALSE,
           viewed_at     |-> Some(now),
           completed_at  |-> Null]}

\* a view that replaces the row and so drops its completed_at (INSERT OR REPLACE
\* without the completed_at column)
upsert_viewed_dropping_completed_at(cp, enrollment_id, content_id, now) ==
    LET old == existing(cp, enrollment_id, content_id)
    IN  IF old # {}
        THEN (cp \ old) \cup {[r EXCEPT !.viewed_at = Some(now),
                                        !.completed_at = Null] : r \in old}
        ELSE cp \cup {[id            |-> progress_id(enrollment_id, content_id),
                       enrollment_id |-> enrollment_id,
                       content_id    |-> content_id,
                       is_completed  |-> FALSE,
                       viewed_at     |-> Some(now),
                       completed_at  |-> Null]}

\* a view that marks the row completed (is_completed = 1 in the VALUES list and
\* in the DO UPDATE SET list)
upsert_viewed_completing(cp, enrollment_id, content_id, now) ==
    (cp \ existing(cp, enrollment_id, content_id))
    \cup {[id            |-> progress_id(enrollment_id, content_id),
           enrollment_id |-> enrollment_id,
           content_id    |-> content_id,
           is_completed  |-> TRUE,
           viewed_at     |-> Some(now),
           completed_at  |-> Some(now)]}

\* STEP 5: INSERT INTO content_progress ... ON CONFLICT(enrollment_id, content_id)
\* DO UPDATE SET viewed_at = excluded.viewed_at.  The inserted row carries the
\* is_completed / completed_at read in STEP 4, (0, NULL) when no row was found.
upsert_viewed(cp, enrollment_id, content_id, now) ==
    LET old == existing(cp, enrollment_id, content_id)
    IN  IF old # {}
        THEN (cp \ old) \cup {[r EXCEPT !.viewed_at = Some(now)] : r \in old}
        ELSE cp \cup {[id            |-> progress_id(enrollment_id, content_id),
                       enrollment_id |-> enrollment_id,
                       content_id    |-> content_id,
                       is_completed  |-> FALSE,
                       viewed_at     |-> Some(now),
                       completed_at  |-> Null]}

----------------------------------------------------------------------------
(* Statements of mark_content_as_completed *)

\* STEP 5: INSERT INTO content_progress ... VALUES (.., 1, now, ..)
\* ON CONFLICT(enrollment_id, content_id) DO UPDATE SET is_completed = 1,
\* completed_at = excluded.completed_at
upsert_completed(cp, enrollment_id, content_id, now) ==
    LET old == existing(cp, enrollment_id, content_id)
    IN  IF old # {}
        THEN (cp \ old) \cup {[r EXCEPT !.is_completed = TRUE,
                                        !.completed_at = Some(now)] : r \in old}
        ELSE cp \cup {[id            |-> progress_id(enrollment_id, content_id),
                       enrollment_id |-> enrollment_id,
                       content_id    |-> content_id,
                       is_completed  |-> TRUE,
                       viewed_at     |-> Null,
                       completed_at  |-> Some(now)]}

\* STEP 6: SELECT COUNT(*) FROM content_blocks WHERE module_id = ?1
total_content(module_id) ==
    Cardinality({cb \in content_blocks : cb.module_id = module_id})

\* STEP 7: SELECT COUNT(*) FROM content_progress cp JOIN content_blocks cb
\*  ON cp.content_id = cb.id WHERE cp.enrollment_id = ?1 AND cb.module_id = ?2
\*  AND cp.is_completed = 1   (a count of joined row pairs)
completed_content(cp, enrollment_id, module_id) ==
    Cardinality({<<r, cb>> \in cp \X content_blocks :
                    /\ r.content_id = cb.id
                    /\ r.enrollment_id = enrollment_id
                    /\ cb.module_id = module_id
                    /\ r.is_completed})

\* a percentage cut to the whole number below (as i64 instead of .round())
content_completion_percentage_truncating(completed, total) ==
    IF total > 0 THEN (100 * completed) \div total ELSE 0

\* STEP 8: ((completed as f64 / total as f64) * 100.0).round(), 0.0 when total = 0
\* (round half away from zero; exact in integers for the totals of the model)
content_completion_percentage(completed, total) ==
    IF total > 0 THEN (200 * completed + total) \div (2 * total) ELSE 0

\* an update that counts the call instead of the rows
\* (completed_content_count = completed_content_count + 1)
update_aggregates_incrementing(mp, enrollment_id, module_id, pct, completed, total) ==
    {IF r.enrollment_id = enrollment_id /\ r.module_id = module_id
     THEN [r EXCEPT !.content_completion_percentage = pct,
                    !.completed_content_count = r.completed_content_count + 1,
                    !.total_content_count = total]
     ELSE r : r \in mp}

\* an update that inserts the row when the module has none (an upsert)
update_aggregates_upserting(mp, enrollment_id, module_id, pct, completed, total) ==
    IF \E r \in mp : r.enrollment_id = enrollment_id /\ r.module_id = module_id
    THEN {IF r.enrollment_id = enrollment_id /\ r.module_id = module_id
          THEN [r EXCEPT !.content_completion_percentage = pct,
                         !.completed_content_count = completed,
                         !.total_content_count = total]
          ELSE r : r \in mp}
    ELSE mp \cup {[id |-> "mp1", enrollment_id |-> enrollment_id,
                   module_id |-> module_id, status |-> "in_progress",
                   started_at |-> Null, completed_at |-> Null,
                   auto_completed |-> FALSE, content_completion_percentage |-> pct,
                   completed_content_count |-> completed,
                   total_content_count |-> total]}

\* STEP 9: UPDATE module_progress SET content_completion_percentage = ?1,
\*  completed_content_count = ?2, total_content_count = ?3
\*  WHERE enrollment_id = ?5 AND module_id = ?6
update_aggregates(mp, enrollment_id, module_id, pct, completed, total) ==
    {IF r.enrollment_id = enrollment_id /\ r.module_id = module_id
     THEN [r EXCEPT !.content_completion_percentage = pct,
                    !.completed_content_count = completed,
                    !.total_content_count = total]
     ELSE r : r \in mp}

\* check_module_auto_completion, first query: COUNT(*) over content_blocks LEFT JOIN
\* content_progress is 0 -> false; equal to the count of joined rows with
\* is_completed = 1 -> true
all_content_completed(cp, enrollment_id, module_id) ==
    LET blocks == {cb \in content_blocks : cb.module_id = module_id}
        joined == {<<cb, r>> \in blocks \X cp :
                      r.content_id = cb.id /\ r.enrollment_id = enrollment_id}
        unmatched == {cb \in blocks : \A r \in cp :
                      ~(r.content_id = cb.id /\ r.enrollment_id = enrollment_id)}
        rows == Cardinality(joined) + Cardinality(unmatched)
        done == Cardinality({p \in joined : p[2].is_completed})
    IN  rows # 0 /\ rows = done

\* check_module_auto_completion, second query: SELECT has_quiz FROM modules
\* WHERE id = ?1, false when there is no such row
has_quiz(module_id) ==
    \E m \in modules : m.id = module_id /\ m.has_quiz

\* a quiz check without the joins to users and enrollments: any student's attempt
quiz_passed_by_anyone(qa, enrollment_id, module_id) ==
    \E a \in qa, q \in quizzes :
        /\ a.quiz_id = q.id
        /\ q.module_id = module_id
        /\ a.status = "completed"
        /\ a.passed = TRUE

\* check_module_auto_completion, third query: EXISTS(quiz_attempts JOIN quizzes JOIN
\* users JOIN enrollments WHERE q.module_id = ?1 AND e.id = ?2
\* AND qa.status = 'completed' AND qa.passed = 1)
quiz_passed(qa, enrollment_id, module_id) ==
    \E a \in qa, q \in quizzes, u \in users, e \in enrollments :
        /\ a.quiz_id = q.id
        /\ a.student_id = u.id
        /\ u.id = e.student_id
        /\ q.module_id = module_id
        /\ e.id = enrollment_id
        /\ a.status = "completed"
        /\ a.passed = TRUE

\* a check that stops after the content query and never looks at the quiz
check_module_auto_completion_without_quiz(cp, qa, enrollment_id, module_id) ==
    all_content_completed(cp, enrollment_id, module_id)

check_module_auto_completion(cp, qa, enrollment_id, module_id) ==
    IF ~all_content_completed(cp, enrollment_id, module_id) THEN FALSE
    ELSE IF ~has_quiz(module_id) THEN TRUE
    ELSE quiz_passed(qa, enrollment_id, module_id)

\* an auto-completion that leaves auto_completed as it was
auto_complete_without_flag(mp, enrollment_id, module_id, now) ==
    {IF r.enrollment_id = enrollment_id /\ r.module_id = module_id
     THEN [r EXCEPT !.status = "completed", !.completed_at = Some(now)]
     ELSE r : r \in mp}

\* STEP 10: UPDATE module_progress SET status = 'completed', completed_at = ?1,
\*  auto_completed = 1 WHERE enrollment_id = ?3 AND module_id = ?4
auto_complete(mp, enrollment_id, module_id, now) ==
    {IF r.enrollment_id = enrollment_id /\ r.module_id = module_id
     THEN [r EXCEPT !.status = "completed",
                    !.completed_at = Some(now),
                    !.auto_completed = TRUE]
     ELSE r : r \in mp}

\* an update without its WHERE clause: every enrollment is touched
touch_every_enrollment(enr, enrollment_id, now) ==
    {[e EXCEPT !.updated_at = Some(now)] : e \in enr}

\* STEP 7 / STEP 11: UPDATE enrollments SET updated_at = ?1 WHERE id = ?2
touch_enrollment(enr, enrollment_id, now) ==
    {IF e.id = enrollment_id THEN [e EXCEPT !.updated_at = Some(now)] ELSE e : e \in enr}

----------------------------------------------------------------------------
(* Other writes of progress.rs *)

\* INSERT OR REPLACE INTO <table> ... : the row replaces the row of the same id
insert_or_replace(table, row) ==
    {r \in table : r.id # row.id} \cup {row}

\* update_module_status: the three arms of `match status.as_str()`
set_module_status(mp, module_progress_id, status, now) ==
    {IF r.id # module_progress_id THEN r
     ELSE IF status = "in_progress"
          THEN [r EXCEPT !.status = status, !.started_at = Some(now)]
     ELSE IF status = "completed"
          THEN [r EXCEPT !.status = status, !.completed_at = Some(now)]
     ELSE [r EXCEPT !.status = status] : r \in mp}

\* update_quiz_attempt_status: the two arms of `if status == "completed"`
set_attempt_status(qa, attempt_id, status, passed) ==
    {IF r.id # attempt_id THEN r
     ELSE IF status = "completed"
          THEN [r EXCEPT !.status = status, !.passed = passed]
     ELSE [r EXCEPT !.status = status] : r \in qa}

----------------------------------------------------------------------------
(* Calls and their frames *)

Threads == {"t1", "t2"}

Idle == [pc |-> "idle", content_id |-> 0, module_id |-> "", enrollment_id |-> "",
         now |-> 0, total |-> 0, completed |-> 0, should |-> FALSE]

NoneRunning == \A t \in Threads : calls[t].pc = "idle"

Returned(op, arg, ok, now) ==
    [op |-> op, arg |-> arg, ok |-> ok, now |-> now,
     again |-> (ok /\ last.ok /\ last.op = op /\ last.arg = arg)]

progress_tables == <<content_progress, module_progress, enrollments>>

----------------------------------------------------------------------------
(* Handlers, one call at a time *)

mark_content_as_viewed(content_id) ==
    /\ NoneRunning
    /\ IF Resolve(content_id) = {}
       THEN /\ last' = Returned("mark_content_as_viewed", <<content_id>>, FALSE, clock)
            /\ UNCHANGED <<content_progress, enrollments, clock>>
       ELSE \E res \in Resolve(content_id), now \in Now :
            /\ content_progress' = upsert_viewed(content_progress, res[3], content_id, now)
            /\ enrollments' = touch_enrollment(enrollments, res[3], now)
            /\ clock' = now
            /\ last' = Returned("mark_content_as_viewed", <<content_id>>, TRUE, now)
    /\ UNCHANGED <<catalog, outbox, offline, module_progress, quiz_attempts, calls, snapshot>>

mark_content_as_completed(content_id) ==
    /\ NoneRunning
    /\ IF Resolve(content_id) = {}
       THEN /\ last' = Returned("mark_content_as_completed", <<content_id>>, FALSE, clock)
            /\ UNCHANGED <<content_progress, module_progress, enrollments, clock>>
       ELSE \E res \in Resolve(content_id), now \in Now :
            LET module_id == res[1]
                enrollment_id == res[3]
                cp == upsert_completed(content_progress, enrollment_id, content_id, now)
                total == total_content(module_id)
                completed == completed_content(cp, enrollment_id, module_id)
                mp == update_aggregates(module_progress, enrollment_id, module_id,
                          content_completion_percentage(completed, total), completed, total)
                should_auto_complete ==
                    check_module_auto_completion(cp, quiz_attempts, enrollment_id, module_id)
            IN  /\ content_progress' = cp
                /\ module_progress' = IF should_auto_complete
                                      THEN auto_complete(mp, enrollment_id, module_id, now)
                                      ELSE mp
                /\ enrollments' = touch_enrollment(enrollments, enrollment_id, now)
                /\ clock' = now
                /\ last' = Returned("mark_content_as_completed", <<content_id>>, TRUE, now)
    /\ UNCHANGED <<catalog, outbox, offline, quiz_attempts, calls, snapshot>>

save_module_progress(progress) ==
    /\ NoneRunning
    /\ \E now \in Now :
        /\ module_progress' = insert_or_replace(module_progress, progress)
        /\ enrollments' = touch_enrollment(enrollments, progress.enrollment_id, now)
        /\ clock' = now
        /\ last' = Returned("save_module_progress", <<progress.id, progress.status>>, TRUE, now)
    /\ UNCHANGED <<catalog, outbox, offline, content_progress, quiz_attempts, calls, snapshot>>

update_module_status(module_progress_id, status) ==
    /\ NoneRunning
    /\ \E now \in Now :
        /\ module_progress' = set_module_status(module_progress, module_progress_id, status, now)
        /\ clock' = now
        /\ last' = Returned("update_module_status", <<module_progress_id, status>>, TRUE, now)
    /\ UNCHANGED <<catalog, outbox, offline, content_progress, enrollments, quiz_attempts, calls, snapshot>>

save_quiz_attempt(attempt) ==
    /\ NoneRunning
    /\ quiz_attempts' = insert_or_replace(quiz_attempts, attempt)
    /\ last' = Returned("save_quiz_attempt", <<attempt.id, attempt.status, attempt.passed>>, TRUE, clock)
    /\ UNCHANGED <<catalog, outbox, offline, content_progress, module_progress, enrollments, clock, calls, snapshot>>

update_quiz_attempt_status(attempt_id, status, passed) ==
    /\ NoneRunning
    /\ quiz_attempts' = set_attempt_status(quiz_attempts, attempt_id, status, passed)
    /\ last' = Returned("update_quiz_attempt_status", <<attempt_id, status, passed>>, TRUE, clock)
    /\ UNCHANGED <<catalog, outbox, offline, content_progress, module_progress, enrollments, clock, calls, snapshot>>

----------------------------------------------------------------------------
(* The stored catalog and the inputs of the handlers *)

AttemptStatuses == {"in_progress", "completed"}

\* one course k1 with one module m1 of n content blocks, with or without a quiz;
\* one student u1 enrolled in k1
CatalogOf(n, hq) ==
    /\ users = {[id |-> "u1"]}
    /\ enrollments = {[id |-> "e1", student_id |-> "u1", course_id |-> "k1",
                       created_at |-> 0, updated_at |-> Some(0)]}
    /\ modules = {[id |-> "m1", course_id |-> "k1", has_quiz |-> hq]}
    /\ content_blocks = {[id |-> c, module_id |-> "m1"] : c \in 1 .. n}
    /\ quizzes = IF hq THEN {[id |-> "q1", module_id |-> "m1"]} ELSE {}

\* a module_progress row as the caller's JSON gives it to save_module_progress
ModuleProgressRow(status, now) ==
    [id |-> "mp1", enrollment_id |-> "e1", module_id |-> "m1", status |-> status,
     started_at |-> Null,
     completed_at |-> IF status = "completed" THEN Some(now) ELSE Null,
     auto_completed |-> FALSE, content_completion_percentage |-> 0,
     completed_content_count |-> 0, total_content_count |-> 0]

\* a quiz_attempts row as the caller's JSON gives it to save_quiz_attempt
AttemptRow(status, passed) ==
    [id |-> "a1", student_id |-> "u1", quiz_id |-> "q1", attempt_number |-> 1,
     status |-> status, passed |-> passed]

InitCommon ==
    /\ \E n \in 1 .. MaxBlocks, hq \in BOOLEAN : CatalogOf(n, hq)
    /\ content_progress = {}
    /\ clock = 0
    /\ last = NoCall
    /\ calls = [t \in Threads |-> Idle]
    /\ snapshot = <<{}, {}, {}>>
    /\ EmptyOutbox
    /\ EmptyOffline

----------------------------------------------------------------------------
(* Spec: the handlers that write module_progress and quiz_attempts, and the
   cascade of mark_content_as_completed, one call at a time, from an empty
   progress store.  mark_content_as_viewed, which writes none of the columns
   the cascade reads, runs in SpecMarks. *)

Init ==
    /\ InitCommon
    /\ module_progress = {}
    /\ quiz_attempts = {}

Next ==
    \/ \E c \in ContentIds : mark_content_as_completed(c)
    \/ \E s \in Statuses : save_module_progress(ModuleProgressRow(s, clock))
    \/ \E s \in Statuses : update_module_status("mp1", s)
    \/ \E s \in AttemptStatuses, p \in BOOLEAN : save_quiz_attempt(AttemptRow(s, p))
    \/ \E s \in AttemptStatuses, p \in BOOLEAN : update_quiz_attempt_status("a1", s, p)

Spec == Init /\ [][Next]_vars

----------------------------------------------------------------------------
(* SpecMarks: only mark_content_as_viewed / mark_content_as_completed run, on a
   store whose module_progress row and quiz attempt were saved before *)

InitMarks ==
    /\ InitCommon
    /\ module_progress \in {{}} \cup {{ModuleProgressRow(s, 0)} : s \in Statuses}
    /\ quiz_attempts \in {{}} \cup {{AttemptRow(s, p)} : s \in AttemptStatuses, p \in BOOLEAN}
    /\ quizzes = {} => quiz_attempts = {}

NextMarks ==
    \/ \E c \in ContentIds : mark_content_as_viewed(c)
    \/ \E c \in ContentIds : mark_content_as_completed(c)

SpecMarks == InitMarks /\ [][NextMarks]_vars

----------------------------------------------------------------------------
(* SpecAggregates: the two handlers that write the aggregate columns of
   module_progress, on a module of up to MaxBlocks + 1 content blocks (thirds
   make the percentage round): mark_content_as_completed recounts them,
   save_module_progress stores the counts of the caller's JSON as they come *)

AggregateBlocks == MaxBlocks + 1

\* counts a caller's JSON may carry (as_i64().unwrap_or(0): any integer)
JsonCounts == {0, MaxBlocks}

\* a module_progress row as the caller's JSON gives it, counts included
ModuleProgressCounts(completed, total) ==
    [ModuleProgressRow("in_progress", 0) EXCEPT
        !.completed_content_count = completed,
        !.total_content_count = total]

InitAggregates ==
    /\ \E n \in 1 .. AggregateBlocks : CatalogOf(n, FALSE)
    /\ content_progress = {}
    /\ module_progress \in {{}, {ModuleProgressCounts(0, 0)}}
    /\ quiz_attempts = {}
    /\ clock = 0
    /\ last = NoCall
    /\ calls = [t \in Threads |-> Idle]
    /\ snapshot = <<{}, {}, {}>>
    /\ EmptyOutbox
    /\ EmptyOffline

NextAggregates ==
    \/ \E c \in 1 .. AggregateBlocks : mark_content_as_completed(c)
    \/ \E completed \in JsonCounts, total \in JsonCounts :
          save_module_progress(ModuleProgressCounts(completed, total))

SpecAggregates == InitAggregates /\ [][NextAggregates]_vars

----------------------------------------------------------------------------
(* SpecResolve: mark_content_as_viewed / mark_content_as_completed on a store
   where the lookups of STEPs 1-3 may find nothing: a content id with no
   content_blocks row, a content block whose module row is missing, a course
   with no enrollment, an enrollment whose user row is gone (clear_auth_tokens
   deletes users).  Progress rows of an earlier session may be present. *)

\* a content_progress row of an earlier completed item
ContentProgressRow(content_id) ==
    [id |-> progress_id("e1", content_id), enrollment_id |-> "e1",
     content_id |-> content_id, is_completed |-> TRUE,
     viewed_at |-> Some(0), completed_at |-> Some(0)]

InitResolve ==
    /\ users \in {{}, {[id |-> "u1"]}}
    /\ enrollments \in {{}, {[id |-> "e1", student_id |-> "u1", course_id |-> "k1",
                              created_at |-> 0, updated_at |-> Some(0)]}}
    /\ modules \in {{}, {[id |-> "m1", course_id |-> "k1", has_quiz |-> FALSE]}}
    /\ \E n \in 1 .. MaxBlocks :
          content_blocks = {[id |-> c, module_id |-> "m1"] : c \in 1 .. n}
    /\ quizzes = {}
    /\ content_progress \in {{}, {ContentProgressRow(1)}}
    /\ module_progress \in {{}, {ModuleProgressRow("in_progress", 0)}}
    /\ quiz_attempts = {}
    /\ clock = 0
    /\ last = NoCall
    /\ calls = [t \in Threads |-> Idle]
    /\ snapshot = <<{}, {}, {}>>
    /\ EmptyOutbox
    /\ EmptyOffline

NextResolve ==
    \/ \E c \in ContentIds : mark_content_as_viewed(c)
    \/ \E c \in ContentIds : mark_content_as_completed(c)

SpecResolve == InitResolve /\ [][NextResolve]_vars

----------------------------------------------------------------------------
(* SpecCohort: mark_content_as_completed on a course k1 with two students and
   two modules with a quiz each.  e1 (student u1) is the enrollment STEP 3
   resolves (the latest created_at); e2 (student u2) is an older enrollment of
   the same course.  The content blocks are in m1; q1 is the quiz of m1, q2 of
   m2.  The stored quiz attempt is any one attempt of either student on either
   quiz. *)

CohortEnrollments ==
    {[id |-> "e1", student_id |-> "u1", course_id |-> "k1",
      created_at |-> 1, updated_at |-> Some(0)],
     [id |-> "e2", student_id |-> "u2", course_id |-> "k1",
      created_at |-> 0, updated_at |-> Null]}

CohortAttempts ==
    {[id |-> "a1", student_id |-> u, quiz_id |-> q, attempt_number |-> 1,
      status |-> s, passed |-> p] :
        u \in {"u1", "u2"}, q \in {"q1", "q2"}, s \in AttemptStatuses, p \in BOOLEAN}

CohortModuleProgress ==
    {ModuleProgressRow("in_progress", 0),
     [ModuleProgressRow("in_progress", 0) EXCEPT !.id = "mp2", !.enrollment_id = "e2"]}

InitCohort ==
    /\ users = {[id |-> "u1"], [id |-> "u2"]}
    /\ enrollments = CohortEnrollments
    /\ modules = {[id |-> "m1", course_id |-> "k1", has_quiz |-> TRUE],
                  [id |-> "m2", course_id |-> "k1", has_quiz |-> TRUE]}
    /\ \E n \in 1 .. MaxBlocks :
          content_blocks = {[id |-> c, module_id |-> "m1"] : c \in 1 .. n}
    /\ quizzes = {[id |-> "q1", module_id |-> "m1"], [id |-> "q2", module_id |-> "m2"]}
    /\ content_progress = {}
    /\ module_progress \in {{}, CohortModuleProgress}
    /\ quiz_attempts \in {{}} \cup {{a} : a \in CohortAttempts}
    /\ clock = 0
    /\ last = NoCall
    /\ calls = [t \in Threads |-> Idle]
    /\ snapshot = <<{}, {}, {}>>
    /\ EmptyOutbox
    /\ EmptyOffline

NextCohort ==
    \E c \in ContentIds : mark_content_as_completed(c)

SpecCohort == InitCohort /\ [][NextCohort]_vars

----------------------------------------------------------------------------
(* The sync outbox of sync.rs.  id is the rowid SQLite gives the INSERT, taken
   here as growing with every insert.  created_at is datetime('now'): the wall
   clock cut to whole seconds, one point of the logical clock per second.  Both
   SELECTs order by created_at alone; the order of rows of equal created_at is
   the engine's, fixed for a run by tie_order. *)

SyncIds == 1 .. MaxItems
SyncTables == {"content_progress", "module_progress"}
\* error_message: Option<String>; the message of a failed push
ErrorMessages == {Some("timeout")}
\* limit: Option<i64>; None, or fewer than the queue can hold
Limits == {Null} \cup {Some(n) : n \in 1 .. MaxItems - 1}
\* sync_id: i64 of update_sync_queue_retry; the items whose push is retried
NackIds == {1, 2}
\* the two commands that read the queue
Dequeues == {"get_sync_queue", "get_sync_queue_by_table"}
TieOrders == {"rowid ascending", "rowid descending"}

\* get_sync_queue: limit.unwrap_or(100)
limit_value(limit) == IF limit = Null THEN 100 ELSE limit[1]

\* an insert that skips a change that is already queued (INSERT ... WHERE NOT EXISTS)
insert_sync_item_once(queue, id, operation_type, table_name, record_id, data, now) ==
    IF \E r \in queue : /\ r.operation_type = operation_type
                         /\ r.table_name = table_name
                         /\ r.record_id = record_id
                         /\ r.data = data
    THEN queue
    ELSE queue \cup {[id |-> id, operation_type |-> operation_type,
                      table_name |-> table_name, record_id |-> record_id, data |-> data,
                      created_at |-> now, retry_count |-> 0,
                      last_retry_at |-> Null, error_message |-> Null]}

\* add_to_sync_queue: INSERT INTO sync_queue (operation_type, table_name, record_id,
\*  data, created_at, retry_count) VALUES (?1, ?2, ?3, ?4, datetime('now'), 0)
insert_sync_item(queue, id, operation_type, table_name, record_id, data, now) ==
    queue \cup {[id |-> id, operation_type |-> operation_type,
                 table_name |-> table_name, record_id |-> record_id, data |-> data,
                 created_at |-> now, retry_count |-> 0,
                 last_retry_at |-> Null, error_message |-> Null]}

\* r comes before q under ORDER BY created_at ASC
Before(r, q) ==
    \/ r.created_at < q.created_at
    \/ /\ r.created_at = q.created_at
       /\ IF tie_order = "rowid ascending" THEN r.id < q.id ELSE r.id > q.id

RECURSIVE order_by_created_at(_)
\* ... FROM sync_queue ORDER BY created_at ASC
order_by_created_at(rows) ==
    IF rows = {} THEN <<>>
    ELSE LET first == CHOOSE r \in rows : \A q \in rows \ {r} : Before(r, q)
         IN  <<first>> \o order_by_created_at(rows \ {first})

\* get_sync_queue: SELECT json_object(...) FROM sync_queue ORDER BY created_at ASC LIMIT ?1
select_sync_queue(queue, limit) ==
    LET rows == order_by_created_at(queue)
    IN  SubSeq(rows, 1, IF limit < Len(rows) THEN limit ELSE Len(rows))

\* get_sync_queue_by_table: ... WHERE table_name = ?1 ORDER BY created_at ASC
select_sync_queue_by_table(queue, table_name) ==
    order_by_created_at({r \in queue : r.table_name = table_name})

\* DELETE FROM sync_queue WHERE id = ?1
delete_sync_item(queue, sync_id) == {r \in queue : r.id # sync_id}

RECURSIVE delete_sync_items(_, _)
\* remove_multiple_from_sync_queue: for id in ids { DELETE ... WHERE id = ?1 }
delete_sync_items(queue, ids) ==
    IF ids = <<>> THEN queue
    ELSE delete_sync_items(delete_sync_item(queue, Head(ids)), Tail(ids))

\* a retry that writes the count instead of adding to it (retry_count = 1)
retry_sync_item_overwriting(queue, sync_id, error_message, now) ==
    {IF r.id = sync_id
     THEN [r EXCEPT !.retry_count = 1,
                    !.last_retry_at = Some(now),
                    !.error_message = error_message]
     ELSE r : r \in queue}

\* a retry that gives the item up once it has been retried MaxRetries times
retry_sync_item_giving_up(queue, sync_id, error_message, now) ==
    {[r EXCEPT !.retry_count = r.retry_count + 1,
               !.last_retry_at = Some(now),
               !.error_message = error_message] :
        r \in {x \in queue : x.id = sync_id /\ x.retry_count + 1 < MaxRetries}}
    \cup {r \in queue : r.id # sync_id}

\* a retry that puts the item at the back of the queue (created_at = datetime('now'))
retry_sync_item_requeueing(queue, sync_id, error_message, now) ==
    {IF r.id = sync_id
     THEN [r EXCEPT !.retry_count = r.retry_count + 1,
                    !.last_retry_at = Some(now),
                    !.error_message = error_message,
                    !.created_at = now]
     ELSE r : r \in queue}

\* UPDATE sync_queue SET retry_count = retry_count + 1, last_retry_at = datetime('now'),
\*  error_message = ?1 WHERE id = ?2
retry_sync_item(queue, sync_id, error_message, now) ==
    {IF r.id = sync_id
     THEN [r EXCEPT !.retry_count = r.retry_count + 1,
                    !.last_retry_at = Some(now),
                    !.error_message = error_message]
     ELSE r : r \in queue}

\* what a sync command returned: Ok, with the rows it selected (again: a dequeue
\* that follows the same dequeue)
SyncReturned(op, arg, now, result) ==
    [op |-> op, arg |-> arg, ok |-> TRUE, now |-> now,
     again |-> (op \in Dequeues /\ last.op = op /\ last.arg = arg),
     result |-> result]

progress_store == <<catalog, enrollments, content_progress, module_progress,
                    quiz_attempts, calls, snapshot>>

add_to_sync_queue(operation_type, table_name, record_id, data) ==
    /\ sqlite_sequence < MaxItems
    /\ \E now \in Now :
        /\ sync_queue' = insert_sync_item(sync_queue, sqlite_sequence + 1,
                             operation_type, table_name, record_id, data, now)
        /\ sqlite_sequence' = sqlite_sequence + 1
        /\ clock' = now
        /\ last' = SyncReturned("add_to_sync_queue", <<table_name>>, now, <<>>)
    /\ UNCHANGED <<progress_store, offline, tie_order>>

\* a dequeue that takes the rows it returns out of the table
get_sync_queue_removing(limit) ==
    /\ last' = SyncReturned("get_sync_queue", <<limit>>, clock,
                   select_sync_queue(sync_queue, limit_value(limit)))
    /\ sync_queue' = {r \in sync_queue :
                         \A i \in 1 .. Len(last'.result) : last'.result[i] # r}
    /\ UNCHANGED <<progress_store, offline, sqlite_sequence, tie_order, clock>>

get_sync_queue(limit) ==
    /\ last' = SyncReturned("get_sync_queue", <<limit>>, clock,
                   select_sync_queue(sync_queue, limit_value(limit)))
    /\ UNCHANGED <<progress_store, offline, outbox, clock>>

get_sync_queue_by_table(table_name) ==
    /\ last' = SyncReturned("get_sync_queue_by_table", <<table_name>>, clock,
                   select_sync_queue_by_table(sync_queue, table_name))
    /\ UNCHANGED <<progress_store, offline, outbox, clock>>

remove_from_sync_queue(sync_id) ==
    /\ sync_queue' = delete_sync_item(sync_queue, sync_id)
    /\ last' = SyncReturned("remove_from_sync_queue", <<sync_id>>, clock, <<>>)
    /\ UNCHANGED <<progress_store, offline, sqlite_sequence, tie_order, clock>>

remove_multiple_from_sync_queue(sync_ids) ==
    /\ sync_queue' = delete_sync_items(sync_queue, sync_ids)
    /\ last' = SyncReturned("remove_multiple_from_sync_queue", <<sync_ids>>, clock, <<>>)
    /\ UNCHANGED <<progress_store, offline, sqlite_sequence, tie_order, clock>>

update_sync_queue_retry(sync_id, error_message) ==
    /\ \A r \in sync_queue : r.id = sync_id => r.retry_count < MaxRetries
    /\ \E now \in Now :
        /\ sync_queue' = retry_sync_item(sync_queue, sync_id, error_message, now)
        /\ clock' = now
        /\ last' = SyncReturned("update_sync_queue_retry", <<sync_id, error_message>>,
                       now, <<>>)
    /\ UNCHANGED <<progress_store, offline, sqlite_sequence, tie_order>>

clear_sync_queue ==
    /\ sync_queue' = {}
    /\ last' = SyncReturned("clear_sync_queue", <<>>, clock, <<>>)
    /\ UNCHANGED <<progress_store, offline, sqlite_sequence, tie_order, clock>>

----------------------------------------------------------------------------
(* SpecSync: the sync_queue commands, one call at a time, on an empty store *)

InitSync ==
    /\ users = {} /\ enrollments = {} /\ modules = {} /\ content_blocks = {}
    /\ quizzes = {} /\ content_progress = {} /\ module_progress = {}
    /\ quiz_attempts = {}
    /\ clock = 0
    /\ last = NoCall
    /\ calls = [t \in Threads |-> Idle]
    /\ snapshot = <<{}, {}, {}>>
    /\ sync_queue = {}
    /\ sqlite_sequence = 0
    /\ tie_order \in TieOrders
    /\ EmptyOffline

NextSync ==
    \/ \E t \in SyncTables : add_to_sync_queue("update", t, "r1", "{}")
    \/ \E limit \in Limits : get_sync_queue(limit)
    \/ \E t \in SyncTables : get_sync_queue_by_table(t)
    \/ \E id \in SyncIds : remove_from_sync_queue(id)
    \/ \E a \in SyncIds, b \in SyncIds : a < b /\ remove_multiple_from_sync_queue(<<a, b>>)
    \/ \E id \in NackIds, e \in ErrorMessages : update_sync_queue_retry(id, e)
    \/ clear_sync_queue

SpecSync == InitSync /\ [][NextSync]_vars

----------------------------------------------------------------------------
(* The offline sessions of offline.rs.  Instants are points of the logical
   clock, one point a day: datetime(expires_at) < datetime('now') compares two
   of them, and datetime('now', '-N days') is the clock less N.  The columns
   kept are the ones the WHERE clauses and the derived is_expired / is_valid
   read, with sync_count, last_synced_at and updated_at. *)

SessionIds == {"s1", "s2"}
ExpiryTimes == -1 .. MaxClock

\* session["expires_at"].as_str() as it is stored: the text of an instant, or
\* NULL / a text that is no date (the field left out, "", "never")
ExpiresAt == {Some(t) : t \in ExpiryTimes} \cup {Null}

\* datetime(text) < datetime('now' ...): datetime() of a text that is no date is
\* NULL, and a comparison with NULL is not true
datetime_before(text, instant) == text # Null /\ text[1] < instant

\* datetime(text) >= datetime('now')
datetime_not_before(text, instant) == text # Null /\ text[1] >= instant
DaysOld == {0, 1}

\* the student a session id of the model belongs to
student_of_session(id) == IF id = "s1" THEN "u1" ELSE "u2"

\* an offline_sessions row as the caller's JSON gives it to save_offline_session
\* (sync_count: as_i64().unwrap_or(0), is_deleted: as_bool().unwrap_or(false),
\* last_synced_at and updated_at: as_str() of a field the caller left out)
SessionRow(id, expires_at, is_deleted) ==
    [id |-> id, student_id |-> student_of_session(id), course_id |-> "k1",
     expires_at |-> expires_at, last_synced_at |-> Null, sync_count |-> 0,
     is_deleted |-> is_deleted, updated_at |-> Null]

\* an expiry test that counts the instant of expiry itself (<= instead of <)
is_expired_at_expiry(r, now) == r.expires_at # Null /\ r.expires_at[1] <= now

\* CASE WHEN datetime(os.expires_at) < datetime('now') THEN 1 ELSE 0 END
is_expired(r, now) == datetime_before(r.expires_at, now)

\* CASE WHEN os.is_deleted = 1 THEN 0
\*      WHEN datetime(os.expires_at) < datetime('now') THEN 0 ELSE 1 END
is_valid(r, now) ==
    IF r.is_deleted THEN FALSE
    ELSE IF datetime_before(r.expires_at, now) THEN FALSE
    ELSE TRUE

\* get_offline_session_by_id: SELECT json_object(..., 'is_expired', ..., 'is_valid', ...)
\*  FROM offline_sessions os WHERE os.id = ?1
select_session(sessions, session_id, now) ==
    {[row |-> r, is_expired |-> is_expired(r, now), is_valid |-> is_valid(r, now)] :
        r \in {x \in sessions : x.id = session_id}}

\* a listing whose queries without active_only lack os.is_deleted = 0
select_student_sessions_with_deleted(sessions, student_id, course_id, active_only, now) ==
    {[row |-> r, is_expired |-> is_expired(r, now), is_valid |-> is_valid(r, now)] :
        r \in {x \in sessions :
                 /\ x.student_id = student_id
                 /\ course_id # Null => x.course_id = course_id[1]
                 /\ active_only => (~x.is_deleted
                                    /\ datetime_not_before(x.expires_at, now))}}

\* get_student_offline_sessions: the four queries; all have os.is_deleted = 0, the
\* active_only ones also datetime(os.expires_at) >= datetime('now')
select_student_sessions(sessions, student_id, course_id, active_only, now) ==
    {[row |-> r, is_expired |-> is_expired(r, now), is_valid |-> is_valid(r, now)] :
        r \in {x \in sessions :
                 /\ x.student_id = student_id
                 /\ course_id # Null => x.course_id = course_id[1]
                 /\ ~x.is_deleted
                 /\ active_only => datetime_not_before(x.expires_at, now)}}

\* count_active_offline_sessions: SELECT COUNT(*) ... WHERE [student_id = ?1 AND]
\*  is_deleted = 0 AND datetime(expires_at) >= datetime('now')
count_active(sessions, student_id, now) ==
    Cardinality({x \in sessions :
                    /\ student_id # Null => x.student_id = student_id[1]
                    /\ ~x.is_deleted
                    /\ datetime_not_before(x.expires_at, now)})

\* a sync update that also brings the session back (is_deleted = 0 in the SET list)
touch_session_restoring(sessions, session_id, now) ==
    {IF r.id = session_id
     THEN [r EXCEPT !.last_synced_at = Some(now),
                    !.sync_count = r.sync_count + 1,
                    !.is_deleted = FALSE, !.updated_at = Some(now)]
     ELSE r : r \in sessions}

\* a sync update without its WHERE clause
touch_every_session(sessions, session_id, now) ==
    {[r EXCEPT !.last_synced_at = Some(now), !.sync_count = r.sync_count + 1,
                !.updated_at = Some(now)] :
        r \in sessions}

\* UPDATE offline_sessions SET last_synced_at = ?1, sync_count = sync_count + 1,
\*  updated_at = ?2 WHERE id = ?3
touch_session(sessions, session_id, now) ==
    {IF r.id = session_id
     THEN [r EXCEPT !.last_synced_at = Some(now), !.sync_count = r.sync_count + 1,
                    !.updated_at = Some(now)]
     ELSE r : r \in sessions}

\* UPDATE offline_sessions SET is_deleted = 1, updated_at = ?1 WHERE id = ?2
soft_delete_session(sessions, session_id, now) ==
    {IF r.id = session_id
     THEN [r EXCEPT !.is_deleted = TRUE, !.updated_at = Some(now)]
     ELSE r : r \in sessions}

\* a delete without its WHERE clause
hard_delete_every_session(sessions, session_id) == {}

\* DELETE FROM offline_sessions WHERE id = ?1
hard_delete_session(sessions, session_id) == {r \in sessions : r.id # session_id}

\* a purge that removes the rows instead of flagging them
\* (DELETE FROM offline_sessions WHERE datetime(expires_at) < ...)
purge_expired_sessions(sessions, days_old, now) ==
    {r \in sessions : ~datetime_before(r.expires_at, now - days_old)}

\* the rows of an update that takes every expired session, whatever its age
\* (datetime('now') without the '-N days' modifier)
expired_before_now(sessions, days_old, now) ==
    {r \in sessions : datetime_before(r.expires_at, now) /\ ~r.is_deleted}

\* the rows of UPDATE ... WHERE datetime(expires_at) < datetime('now', '-N days')
\*  AND is_deleted = 0
expired_before(sessions, days_old, now) ==
    {r \in sessions : datetime_before(r.expires_at, now - days_old) /\ ~r.is_deleted}

\* delete_expired_offline_sessions: UPDATE offline_sessions SET is_deleted = 1,
\*  updated_at = ?1 WHERE datetime(expires_at) < datetime('now', ?2 || ' days')
\*  AND is_deleted = 0
soft_delete_expired_sessions(sessions, days_old, now) ==
    {IF r \in expired_before(sessions, days_old, now)
     THEN [r EXCEPT !.is_deleted = TRUE, !.updated_at = Some(now)]
     ELSE r : r \in sessions}

\* what an offline.rs command returned
OfflineReturned(op, arg, ok, now, result) ==
    [op |-> op, arg |-> arg, ok |-> ok, now |-> now, again |-> FALSE,
     result |-> result]

save_offline_session(session) ==
    /\ offline_sessions' = insert_or_replace(offline_sessions, session)
    /\ last' = OfflineReturned("save_offline_session", <<session.id>>, TRUE, clock, {})
    /\ UNCHANGED <<progress_store, outbox, media_cache, batches, clock>>

get_offline_session_by_id(session_id) ==
    /\ \E now \in Now :
        /\ clock' = now
        /\ last' = OfflineReturned("get_offline_session_by_id", <<session_id>>,
                       select_session(offline_sessions, session_id, now) # {}, now,
                       select_session(offline_sessions, session_id, now))
    /\ UNCHANGED <<progress_store, outbox, offline>>

get_student_offline_sessions(student_id, course_id, active_only) ==
    /\ \E now \in Now :
        /\ clock' = now
        /\ last' = OfflineReturned("get_student_offline_sessions",
                       <<student_id, course_id, active_only>>, TRUE, now,
                       select_student_sessions(offline_sessions, student_id,
                                               course_id, active_only, now))
    /\ UNCHANGED <<progress_store, outbox, offline>>

update_offline_session_sync_info(session_id) ==
    /\ \A r \in offline_sessions : r.id = session_id => r.sync_count < MaxSyncs
    /\ \E now \in Now :
        /\ offline_sessions' = touch_session(offline_sessions, session_id, now)
        /\ clock' = now
        /\ last' = OfflineReturned("update_offline_session_sync_info", <<session_id>>,
                       TRUE, now, {})
    /\ UNCHANGED <<progress_store, outbox, media_cache, batches>>

delete_offline_session(session_id) ==
    /\ \E now \in Now :
        /\ offline_sessions' = soft_delete_session(offline_sessions, session_id, now)
        /\ clock' = now
        /\ last' = OfflineReturned("delete_offline_session", <<session_id>>, TRUE, now, {})
    /\ UNCHANGED <<progress_store, outbox, media_cache, batches>>

hard_delete_offline_session(session_id) ==
    /\ offline_sessions' = hard_delete_session(offline_sessions, session_id)
    /\ last' = OfflineReturned("hard_delete_offline_session", <<session_id>>, TRUE,
                   clock, {})
    /\ UNCHANGED <<progress_store, outbox, media_cache, batches, clock>>

count_active_offline_sessions(student_id) ==
    /\ \E now \in Now :
        /\ clock' = now
        /\ last' = OfflineReturned("count_active_offline_sessions", <<student_id>>,
                       TRUE, now, count_active(offline_sessions, student_id, now))
    /\ UNCHANGED <<progress_store, outbox, offline>>

delete_expired_offline_sessions(days_old) ==
    /\ \E now \in Now :
        /\ offline_sessions' = soft_delete_expired_sessions(offline_sessions, days_old, now)
        /\ clock' = now
        /\ last' = OfflineReturned("delete_expired_offline_sessions", <<days_old>>,
                       TRUE, now,
                       Cardinality(expired_before(offline_sessions, days_old, now)))
    /\ UNCHANGED <<progress_store, outbox, media_cache, batches>>

----------------------------------------------------------------------------
(* SpecSessions: the offline session commands, one call at a time *)

InitSessions ==
    /\ users = {} /\ enrollments = {} /\ modules = {} /\ content_blocks = {}
    /\ quizzes = {} /\ content_progress = {} /\ module_progress = {}
    /\ quiz_attempts = {}
    /\ clock = 0
    /\ last = NoCall
    /\ calls = [t \in Threads |-> Idle]
    /\ snapshot = <<{}, {}, {}>>
    /\ EmptyOutbox
    /\ EmptyOffline

NextSessions ==
    \/ \E id \in SessionIds, e \in ExpiresAt, d \in BOOLEAN :
          save_offline_session(SessionRow(id, e, d))
    \/ \E id \in SessionIds : get_offline_session_by_id(id)
    \/ get_student_offline_sessions("u1", Some("k1"), TRUE)
    \/ \E a \in BOOLEAN : get_student_offline_sessions("u1", Null, a)
    \/ \E id \in SessionIds : update_offline_session_sync_info(id)
    \/ \E id \in SessionIds : delete_offline_session(id)
    \/ \E id \in SessionIds : hard_delete_offline_session(id)
    \/ \E u \in {Null, Some("u1")} : count_active_offline_sessions(u)
    \/ \E n \in DaysOld : delete_expired_offline_sessions(n)

SpecSessions == InitSessions /\ [][NextSessions]_vars

----------------------------------------------------------------------------
(* The media cache of offline.rs.  A row is one media file of a course with
   the two columns update_media_download_progress writes; INSERT OR REPLACE is
   taken as keyed by media_id, the column the reads and the update select by. *)

MediaIds == {"m1", "m2"}
MediaCourses == {"k1", "k2"}

\* progress: i64 as the caller passes it, with values outside 0..100
Progresses == {-1, 0, 50, 100, 101}

\* a media_cache row as the caller's JSON gives it to save_media_cache
\* (is_downloaded: as_bool().unwrap_or(false), download_progress: as_i64().unwrap_or(0))
MediaRow(media_id, course_id, is_downloaded, download_progress) ==
    [media_id |-> media_id, course_id |-> course_id,
     is_downloaded |-> is_downloaded, download_progress |-> download_progress]

\* INSERT OR REPLACE INTO media_cache (media_id, ..., is_downloaded, download_progress)
replace_media(cache, row) ==
    {r \in cache : r.media_id # row.media_id} \cup {row}

\* SELECT json_object(...) FROM media_cache WHERE media_id = ?1
select_media(cache, media_id) == {r \in cache : r.media_id = media_id}

\* UPDATE media_cache SET download_progress = ?1, is_downloaded = ?2
\*  WHERE media_id = ?3
set_download_progress(cache, media_id, progress, is_downloaded) ==
    {IF r.media_id = media_id
     THEN [r EXCEPT !.download_progress = progress, !.is_downloaded = is_downloaded]
     ELSE r : r \in cache}

\* DELETE FROM media_cache WHERE course_id = ?1
delete_media_of_course(cache, course_id) == {r \in cache : r.course_id # course_id}

save_media_cache(cache) ==
    /\ media_cache' = replace_media(media_cache, cache)
    /\ last' = OfflineReturned("save_media_cache", <<cache.media_id>>, TRUE, clock, {})
    /\ UNCHANGED <<progress_store, outbox, offline_sessions, batches, clock>>

get_media_cache_by_media_id(media_id) ==
    /\ last' = OfflineReturned("get_media_cache_by_media_id", <<media_id>>,
                   select_media(media_cache, media_id) # {}, clock,
                   select_media(media_cache, media_id))
    /\ UNCHANGED <<progress_store, outbox, offline, clock>>

update_media_download_progress(media_id, progress, is_downloaded) ==
    /\ media_cache' = set_download_progress(media_cache, media_id, progress, is_downloaded)
    /\ last' = OfflineReturned("update_media_download_progress",
                   <<media_id, progress, is_downloaded>>, TRUE, clock, {})
    /\ UNCHANGED <<progress_store, outbox, offline_sessions, batches, clock>>

delete_media_cache_by_course(course_id) ==
    /\ media_cache' = delete_media_of_course(media_cache, course_id)
    /\ last' = OfflineReturned("delete_media_cache_by_course", <<course_id>>, TRUE,
                   clock, {})
    /\ UNCHANGED <<progress_store, outbox, offline_sessions, batches, clock>>

----------------------------------------------------------------------------
(* SpecMedia: the media cache commands, one call at a time *)

InitMedia ==
    /\ users = {} /\ enrollments = {} /\ modules = {} /\ content_blocks = {}
    /\ quizzes = {} /\ content_progress = {} /\ module_progress = {}
    /\ quiz_attempts = {}
    /\ clock = 0
    /\ last = NoCall
    /\ calls = [t \in Threads |-> Idle]
    /\ snapshot = <<{}, {}, {}>>
    /\ EmptyOutbox
    /\ EmptyOffline

NextMedia ==
    \/ \E m \in MediaIds, k \in MediaCourses, d \in BOOLEAN, p \in Progresses :
          save_media_cache(MediaRow(m, k, d, p))
    \/ \E m \in MediaIds : get_media_cache_by_media_id(m)
    \/ \E m \in MediaIds, p \in Progresses, d \in BOOLEAN :
          update_media_download_progress(m, p, d)
    \/ \E k \in MediaCourses : delete_media_cache_by_course(k)

SpecMedia == InitMedia /\ [][NextMedia]_vars


----------------------------------------------------------------------------
(* The progress batches of offline.rs.  id is the rowid SQLite gives the
   INSERT, taken as growing with every insert; created_at and synced_at are
   chrono::Utc::now(), points of the logical clock, one point a day as for the
   sessions.  get_unsynced_progress_batches orders by created_at alone; the
   order of rows of equal created_at is the engine's, fixed for a run by
   tie_order. *)

\* let limit_value = limit.unwrap_or(50)
batch_limit_value(limit) == IF limit = Null THEN 50 ELSE limit[1]

\* INSERT INTO offline_progress_batch (session_id, course_id, batch_data,
\*  created_at, synced, synced_at) VALUES (?1, ?2, ?3, ?4, 0, NULL)
insert_batch(table, id, session_id, course_id, now) ==
    table \cup {[id |-> id, session_id |-> session_id, course_id |-> course_id,
                 created_at |-> now, synced |-> FALSE, synced_at |-> Null]}

\* SELECT json_object(...) FROM offline_progress_batch WHERE synced = 0
\*  ORDER BY created_at ASC LIMIT ?1
select_unsynced_batches(table, limit) ==
    LET rows == {r \in table : ~r.synced}
        n == Cardinality(rows)
    IN  SubSeq(order_by_created_at(rows), 1,
               IF n < batch_limit_value(limit) THEN n ELSE batch_limit_value(limit))

\* UPDATE offline_progress_batch SET synced = 1, synced_at = ?1 WHERE id = ?2
set_batch_synced(table, batch_id, now) ==
    {IF r.id = batch_id THEN [r EXCEPT !.synced = TRUE, !.synced_at = Some(now)]
     ELSE r : r \in table}

\* a purge by the age of the batch, synced or not
\* (DELETE ... WHERE datetime(created_at) < datetime('now', '-N days'))
old_batches(table, days_old, now) ==
    {r \in table : r.created_at < now - days_old}

\* the rows of DELETE FROM offline_progress_batch WHERE synced = 1
\*  AND datetime(synced_at) < datetime('now', ?1 || ' days')
\* (the comparison is NULL, not true, for a synced_at that is NULL)
old_synced_batches(table, days_old, now) ==
    {r \in table : r.synced /\ r.synced_at # Null /\ r.synced_at[1] < now - days_old}

save_offline_progress_batch(session_id, course_id) ==
    /\ batch_sequence < MaxItems
    /\ \E now \in Now :
        /\ offline_progress_batch' = insert_batch(offline_progress_batch,
                                         batch_sequence + 1, session_id, course_id, now)
        /\ batch_sequence' = batch_sequence + 1
        /\ clock' = now
        /\ last' = OfflineReturned("save_offline_progress_batch", <<session_id>>,
                       TRUE, now, <<>>)
    /\ UNCHANGED <<progress_store, outbox, offline_sessions, media_cache>>

get_unsynced_progress_batches(limit) ==
    /\ last' = OfflineReturned("get_unsynced_progress_batches", <<limit>>, TRUE, clock,
                   select_unsynced_batches(offline_progress_batch, limit))
    /\ UNCHANGED <<progress_store, outbox, offline, clock>>

mark_batch_as_synced(batch_id) ==
    /\ \E now \in Now :
        /\ offline_progress_batch' = set_batch_synced(offline_progress_batch, batch_id, now)
        /\ clock' = now
        /\ last' = OfflineReturned("mark_batch_as_synced", <<batch_id>>, TRUE, now, <<>>)
    /\ UNCHANGED <<progress_store, outbox, offline_sessions, media_cache, batch_sequence>>

delete_synced_progress_batches(days_old) ==
    /\ \E now \in Now :
        /\ offline_progress_batch' =
              offline_progress_batch \ old_synced_batches(offline_progress_batch, days_old, now)
        /\ clock' = now
        /\ last' = OfflineReturned("delete_synced_progress_batches", <<days_old>>, TRUE, now,
                       Cardinality(old_synced_batches(offline_progress_batch, days_old, now)))
    /\ UNCHANGED <<progress_store, outbox, offline_sessions, media_cache, batch_sequence>>

----------------------------------------------------------------------------
(* SpecBatches: the progress batch commands, one call at a time *)

BatchIds == 1 .. MaxItems

InitBatches ==
    /\ users = {} /\ enrollments = {} /\ modules = {} /\ content_blocks = {}
    /\ quizzes = {} /\ content_progress = {} /\ module_progress = {}
    /\ quiz_attempts = {}
    /\ clock = 0
    /\ last = NoCall
    /\ calls = [t \in Threads |-> Idle]
    /\ snapshot = <<{}, {}, {}>>
    /\ sync_queue = {}
    /\ sqlite_sequence = 0
    /\ tie_order \in TieOrders
    /\ EmptyOffline

NextBatches ==
    \/ \E s \in SessionIds : save_offline_progress_batch(s, "k1")
    \/ \E limit \in Limits : get_unsynced_progress_batches(limit)
    \/ \E id \in BatchIds : mark_batch_as_synced(id)
    \/ \E n \in DaysOld : delete_synced_progress_batches(n)

SpecBatches == InitBatches /\ [][NextBatches]_vars


----------------------------------------------------------------------------
(* get_offline_session_statistics, and SpecCounts: the commands that count or
   list the offline sessions, beside the two that store and soft-delete them *)

\* SELECT json_object('total_sessions', (SELECT COUNT(*) ... WHERE is_deleted = 0),
\*  'active_sessions', (... is_deleted = 0 AND datetime(expires_at) >= datetime('now')),
\*  'expired_sessions', (... is_deleted = 0 AND datetime(expires_at) < datetime('now')),
\*  'total_media_cached', ..., 'media_downloaded', ..., 'unsynced_batches', ...)
select_statistics(sessions, media, table, now) ==
    [total_sessions |-> Cardinality({r \in sessions : ~r.is_deleted}),
     active_sessions |->
        Cardinality({r \in sessions :
                        ~r.is_deleted /\ datetime_not_before(r.expires_at, now)}),
     expired_sessions |->
        Cardinality({r \in sessions :
                        ~r.is_deleted /\ datetime_before(r.expires_at, now)}),
     total_media_cached |-> Cardinality(media),
     media_downloaded |-> Cardinality({m \in media : m.is_downloaded}),
     unsynced_batches |-> Cardinality({b \in table : ~b.synced})]

get_offline_session_statistics ==
    /\ \E now \in Now :
        /\ clock' = now
        /\ last' = OfflineReturned("get_offline_session_statistics", <<>>, TRUE, now,
                       select_statistics(offline_sessions, media_cache,
                                         offline_progress_batch, now))
    /\ UNCHANGED <<progress_store, outbox, offline>>

InitCounts ==
    /\ users = {} /\ enrollments = {} /\ modules = {} /\ content_blocks = {}
    /\ quizzes = {} /\ content_progress = {} /\ module_progress = {}
    /\ quiz_attempts = {}
    /\ clock = 0
    /\ last = NoCall
    /\ calls = [t \in Threads |-> Idle]
    /\ snapshot = <<{}, {}, {}>>
    /\ EmptyOutbox
    /\ EmptyOffline

NextCounts ==
    \/ \E id \in SessionIds, e \in ExpiresAt : save_offline_session(SessionRow(id, e, FALSE))
    \/ \E id \in SessionIds : delete_offline_session(id)
    \/ \E id \in SessionIds : get_offline_session_by_id(id)
    \/ \E u \in {"u1", "u2"} : get_student_offline_sessions(u, Null, TRUE)
    \/ \E u \in {"u1", "u2"} : count_active_offline_sessions(Some(u))
    \/ get_offline_session_statistics

SpecCounts == InitCounts /\ [][NextCounts]_vars

----------------------------------------------------------------------------
(* SpecAttempts: save_quiz_attempt and update_quiz_attempt_status with the
   attempts a caller can send: any id, any attempt_number *)

AttemptIds == {"a1", "a2"}
AttemptNumbers == {1, 2}

\* a quiz_attempts row of student u1 and quiz q1 as the caller's JSON gives it
\* to save_quiz_attempt (attempt["attempt_number"].as_i64())
QuizAttemptRow(id, attempt_number, status, passed) ==
    [id |-> id, student_id |-> "u1", quiz_id |-> "q1",
     attempt_number |-> attempt_number, status |-> status, passed |-> passed]

InitAttempts ==
    /\ CatalogOf(1, TRUE)
    /\ content_progress = {}
    /\ module_progress = {}
    /\ quiz_attempts = {}
    /\ clock = 0
    /\ last = NoCall
    /\ calls = [t \in Threads |-> Idle]
    /\ snapshot = <<{}, {}, {}>>
    /\ EmptyOutbox
    /\ EmptyOffline

NextAttempts ==
    \/ \E id \in AttemptIds, n \in AttemptNumbers, s \in AttemptStatuses, p \in BOOLEAN :
          save_quiz_attempt(QuizAttemptRow(id, n, s, p))
    \/ \E id \in AttemptIds, s \in AttemptStatuses, p \in BOOLEAN :
          update_quiz_attempt_status(id, s, p)

SpecAttempts == InitAttempts /\ [][NextAttempts]_vars

----------------------------------------------------------------------------
(* save_content_progress, the raw upsert of content_progress.  The ON CONFLICT
   (enrollment_id, content_id) clauses of mark_content_as_viewed and
   mark_content_as_completed need a unique index on that pair, so INSERT OR
   REPLACE deletes the row that has the new row's id and the row that has its
   (enrollment_id, content_id) before it inserts. *)

\* a REPLACE that is keyed by id alone
replace_content_progress_by_id(cp, row) ==
    {r \in cp : r.id # row.id} \cup {row}

\* INSERT OR REPLACE INTO content_progress (id, enrollment_id, content_id,
\*  is_completed, viewed_at, completed_at, ...)
replace_content_progress(cp, row) ==
    {r \in cp : /\ r.id # row.id
                /\ ~(r.enrollment_id = row.enrollment_id /\ r.content_id = row.content_id)}
    \cup {row}

save_content_progress(progress) ==
    /\ NoneRunning
    /\ content_progress' = replace_content_progress(content_progress, progress)
    /\ last' = Returned("save_content_progress",
                        <<progress.content_id, progress.id, progress.is_completed>>,
                        TRUE, clock)
    /\ UNCHANGED <<catalog, outbox, offline, module_progress, enrollments, quiz_attempts,
                   clock, calls, snapshot>>

\* the ids a caller sends for a row: the one the mark handlers generate for the
\* pair ("cp"), or one of its own making
CallerIds == {"cp", "own"}

\* a content_progress row as the caller's JSON gives it to save_content_progress
\* (is_completed: as_bool().unwrap_or(false); viewed_at left out)
CallerProgressRow(id, content_id, is_completed, completed_at) ==
    [id |-> IF id = "cp" THEN progress_id("e1", content_id) ELSE <<"id", "x", 0>>,
     enrollment_id |-> "e1", content_id |-> content_id,
     is_completed |-> is_completed, viewed_at |-> Null, completed_at |-> completed_at]

----------------------------------------------------------------------------
(* SpecContent: the three writers of content_progress, one call at a time, on
   a module of one content block without a quiz; save_content_progress, which
   looks nothing up, also stores rows for the other content ids *)

InitContent ==
    /\ CatalogOf(1, FALSE)
    /\ content_progress = {}
    /\ module_progress = {ModuleProgressRow("not_started", 0)}
    /\ quiz_attempts = {}
    /\ clock = 0
    /\ last = NoCall
    /\ calls = [t \in Threads |-> Idle]
    /\ snapshot = <<{}, {}, {}>>
    /\ EmptyOutbox
    /\ EmptyOffline

NextContent ==
    \/ \E c \in ContentIds : mark_content_as_viewed(c)
    \/ \E c \in ContentIds : mark_content_as_completed(c)
    \/ \E id \in CallerIds, c \in ContentIds, d \in BOOLEAN, at \in BOOLEAN :
          save_content_progress(
              CallerProgressRow(id, c, d, IF at THEN Some(clock) ELSE Null))

SpecContent == InitContent /\ [][NextContent]_vars

----------------------------------------------------------------------------
(* SpecEnrollments: mark_content_as_viewed and mark_content_as_completed on a
   course k1 with the two enrollments of SpecCohort, e1 created after e2 or in
   the same instant, and one content block in m1 (no quiz).  Both enrollments
   can have a module_progress row, and e2 a content_progress row, from before. *)

EnrollmentsCreatedAt(created_at) ==
    {IF e.id = "e1" THEN [e EXCEPT !.created_at = created_at] ELSE e :
        e \in CohortEnrollments}

\* the content_progress row of e2 for the block, completed at instant 0
OtherProgressRow ==
    [id |-> progress_id("e2", 1), enrollment_id |-> "e2", content_id |-> 1,
     is_completed |-> TRUE, viewed_at |-> Some(0), completed_at |-> Some(0)]

InitEnrollments ==
    /\ users = {[id |-> "u1"], [id |-> "u2"]}
    /\ \E t \in 0 .. 1 : enrollments = EnrollmentsCreatedAt(t)
    /\ modules = {[id |-> "m1", course_id |-> "k1", has_quiz |-> FALSE]}
    /\ content_blocks = {[id |-> 1, module_id |-> "m1"]}
    /\ quizzes = {}
    /\ content_progress \in {{}, {OtherProgressRow}}
    /\ module_progress \in {{}, CohortModuleProgress}
    /\ quiz_attempts = {}
    /\ clock = 0
    /\ last = NoCall
    /\ calls = [t \in Threads |-> Idle]
    /\ snapshot = <<{}, {}, {}>>
    /\ EmptyOutbox
    /\ EmptyOffline

NextEnrollments ==
    \/ \E c \in ContentIds : mark_content_as_viewed(c)
    \/ \E c \in ContentIds : mark_content_as_completed(c)

SpecEnrollments == InitEnrollments /\ [][NextEnrollments]_vars


----------------------------------------------------------------------------
(* mark_content_as_completed statement by statement: each conn.execute /
   conn.query_row is its own auto-commit transaction on the call's own
   connection.  A write statement can fail (the handler returns Err through
   map_err(..)?) and the process can stop between any two statements. *)

Frame(t) == calls[t]

Goto(t, pc) == calls' = [calls EXCEPT ![t].pc = pc]

\* STEPs 1-3 and the read of chrono::Utc::now()
completed_begin(t, content_id) ==
    /\ Frame(t).pc = "idle"
    /\ snapshot' = progress_tables
    /\ IF Resolve(content_id) = {}
       THEN /\ last' = Returned("mark_content_as_completed", <<content_id>>, FALSE, clock)
            /\ UNCHANGED <<calls, clock>>
       ELSE \E res \in Resolve(content_id), now \in Now :
            /\ calls' = [calls EXCEPT ![t] =
                            [Idle EXCEPT !.pc = "step5", !.content_id = content_id,
                                         !.module_id = res[1], !.enrollment_id = res[3],
                                         !.now = now]]
            /\ clock' = now
            /\ UNCHANGED last
    /\ UNCHANGED <<catalog, outbox, offline, content_progress, module_progress, enrollments, quiz_attempts>>

\* STEP 5
completed_step5(t) ==
    /\ Frame(t).pc = "step5"
    /\ content_progress' = upsert_completed(content_progress, Frame(t).enrollment_id,
                                            Frame(t).content_id, Frame(t).now)
    /\ Goto(t, "step6")
    /\ UNCHANGED <<catalog, outbox, offline, module_progress, enrollments, quiz_attempts, clock, last, snapshot>>

\* STEPs 6-8: the two counts
completed_step6(t) ==
    /\ Frame(t).pc = "step6"
    /\ calls' = [calls EXCEPT ![t].pc = "step9",
                              ![t].total = total_content(Frame(t).module_id),
                              ![t].completed = completed_content(content_progress,
                                                  Frame(t).enrollment_id, Frame(t).module_id)]
    /\ UNCHANGED <<catalog, outbox, offline, content_progress, module_progress, enrollments, quiz_attempts,
                   clock, last, snapshot>>

\* STEP 9
completed_step9(t) ==
    /\ Frame(t).pc = "step9"
    /\ module_progress' = update_aggregates(module_progress, Frame(t).enrollment_id,
                              Frame(t).module_id,
                              content_completion_percentage(Frame(t).completed, Frame(t).total),
                              Frame(t).completed, Frame(t).total)
    /\ Goto(t, "step10")
    /\ UNCHANGED <<catalog, outbox, offline, content_progress, enrollments, quiz_attempts, clock, last, snapshot>>

\* STEP 10: the call of check_module_auto_completion
completed_step10(t) ==
    /\ Frame(t).pc = "step10"
    /\ LET should_auto_complete ==
               check_module_auto_completion(content_progress, quiz_attempts,
                                            Frame(t).enrollment_id, Frame(t).module_id)
       IN  calls' = [calls EXCEPT ![t].pc = IF should_auto_complete THEN "step10w" ELSE "step11",
                                  ![t].should = should_auto_complete]
    /\ UNCHANGED <<catalog, outbox, offline, content_progress, module_progress, enrollments, quiz_attempts,
                   clock, last, snapshot>>

\* STEP 10: the UPDATE under `if should_auto_complete`
completed_step10w(t) ==
    /\ Frame(t).pc = "step10w"
    /\ module_progress' = auto_complete(module_progress, Frame(t).enrollment_id,
                                        Frame(t).module_id, Frame(t).now)
    /\ Goto(t, "step11")
    /\ UNCHANGED <<catalog, outbox, offline, content_progress, enrollments, quiz_attempts, clock, last, snapshot>>

\* STEP 11 and Ok(..)
completed_step11(t) ==
    /\ Frame(t).pc = "step11"
    /\ enrollments' = touch_enrollment(enrollments, Frame(t).enrollment_id, Frame(t).now)
    /\ last' = Returned("mark_content_as_completed", <<Frame(t).content_id>>, TRUE, Frame(t).now)
    /\ calls' = [calls EXCEPT ![t] = Idle]
    /\ UNCHANGED <<catalog, outbox, offline, content_progress, module_progress, quiz_attempts, clock, snapshot>>

WriteSteps == {"step5", "step9", "step10w", "step11"}

\* a conn.execute(..) returns Err: .map_err(..)? returns it to the caller
completed_fail(t) ==
    /\ Frame(t).pc \in WriteSteps
    /\ last' = Returned("mark_content_as_completed", <<Frame(t).content_id>>, FALSE, Frame(t).now)
    /\ calls' = [calls EXCEPT ![t] = Idle]
    /\ UNCHANGED <<catalog, outbox, offline, content_progress, module_progress, enrollments, quiz_attempts,
                   clock, snapshot>>

\* the process stops; what the statements committed so far is what the store holds
crash ==
    /\ ~NoneRunning
    /\ calls' = [t \in Threads |-> Idle]
    /\ last' = Returned("crash", <<>>, FALSE, clock)
    /\ UNCHANGED <<catalog, outbox, offline, content_progress, module_progress, enrollments, quiz_attempts,
                   clock, snapshot>>

\* SpecSteps: one call at a time, with failing statements and crashes
NextSteps ==
    \/ \E c \in ContentIds : completed_begin("t1", c)
    \/ completed_step5("t1")
    \/ completed_step6("t1")
    \/ completed_step9("t1")
    \/ completed_step10("t1")
    \/ completed_step10w("t1")
    \/ completed_step11("t1")
    \/ completed_fail("t1")
    \/ crash

\* the module_progress row, when there is one, is not completed yet
InitSteps ==
    /\ InitMarks
    /\ \A r \in module_progress : r.status # "completed"

SpecSteps == InitSteps /\ [][NextSteps]_vars

\* SpecConc: the calls of two threads interleave statement by statement; no
\* statement fails.  The module_progress row exists and is not yet completed.
InitConc ==
    /\ InitSteps
    /\ module_progress # {}

NextConc ==
    \E t \in Threads :
        \/ \E c \in ContentIds : completed_begin(t, c)
        \/ completed_step5(t)
        \/ completed_step6(t)
        \/ completed_step9(t)
        \/ completed_step10(t)
        \/ completed_step10w(t)
        \/ completed_step11(t)

SpecConc == InitConc /\ [][NextConc]_vars

----------------------------------------------------------------------------
(* Vocabulary of the properties: the one enrollment e1 and module m1 of the
   stored catalog *)

Rows(mp) == {r \in mp : r.enrollment_id = "e1" /\ r.module_id = "m1"}

Done(cp) == completed_content(cp, "e1", "m1")

Blocks == total_content("m1")

Called(op) == last'.op = op /\ last'.ok /\ last' # last

Predicate(cp, qa) == check_module_auto_completion(cp, qa, "e1", "m1")

ShowsFull(r) ==
    /\ r.completed_content_count = r.total_content_count
    /\ r.total_content_count = Blocks
    /\ r.content_completion_percentage = 100

----------------------------------------------------------------------------
(* C1: cascade correctness for a module without a quiz *)

\* completing fewer than all N items leaves a module that was not Completed
\* not Completed
C1_NotBeforeLast ==
    (/\ Called("mark_content_as_completed")
     /\ ~has_quiz("m1")
     /\ Done(content_progress') < Blocks
     /\ \A r \in Rows(module_progress) : r.status # "completed")
    => \A r \in Rows(module_progress') : r.status # "completed"

\* the call that completes the N-th item sets status = completed, auto_completed
C1_OnLast ==
    (/\ Called("mark_content_as_completed")
     /\ ~has_quiz("m1")
     /\ Done(content_progress) < Blocks
     /\ Done(content_progress') = Blocks)
    => \A r \in Rows(module_progress') : r.status = "completed" /\ r.auto_completed

\* once the module is auto-completed, no later mark_content_as_viewed /
\* mark_content_as_completed call writes status / completed_at / auto_completed again
C1_NoSecondWrite ==
    (/\ ~has_quiz("m1")
     /\ Done(content_progress) = Blocks
     /\ \A r \in Rows(module_progress) : r.status = "completed" /\ r.auto_completed)
    => \A r \in Rows(module_progress), q \in Rows(module_progress') :
           /\ q.status = r.status
           /\ q.completed_at = r.completed_at
           /\ q.auto_completed = r.auto_completed

\* C1: for a module with N >= 1 content items and no quiz, completing N-1 items
\* leaves the module not Completed, completing the N-th sets status = completed
\* with auto_completed, and that write happens exactly once over any later
\* mark_content_as_completed / mark_content_as_viewed calls.
C1_CascadeExactlyOnce ==
    [][C1_NotBeforeLast /\ C1_OnLast /\ C1_NoSecondWrite]_vars

\* the first two parts of C1 alone
C1_CascadeReached == [][C1_NotBeforeLast /\ C1_OnLast]_vars

----------------------------------------------------------------------------
(* C2: quiz gating *)

RecordsPass ==
    /\ last'.op \in {"save_quiz_attempt", "update_quiz_attempt_status"}
    /\ last'.ok
    /\ ~quiz_passed(quiz_attempts, "e1", "m1")
    /\ quiz_passed(quiz_attempts', "e1", "m1")

\* C2: for a module with a quiz whose content is all completed and whose quiz
\* attempts so far are failed, the module is not Completed, and the call that
\* records a passing attempt (save_quiz_attempt or update_quiz_attempt_status
\* with status = completed, passed = true) makes the module Completed with no
\* further content event.
C2_QuizGating ==
    [][(/\ RecordsPass
        /\ has_quiz("m1")
        /\ all_content_completed(content_progress, "e1", "m1")
        /\ Rows(module_progress) # {}
        /\ \A r \in Rows(module_progress) : r.status = "in_progress" /\ ShowsFull(r))
       => \A r \in Rows(module_progress') : r.status = "completed"]_vars

----------------------------------------------------------------------------
(* C3: crash atomicity of the cascade *)

Consistent(r) ==
    /\ r.status = "completed" => ShowsFull(r)
    /\ (/\ ~has_quiz("m1")
        /\ all_content_completed(content_progress, "e1", "m1")
        /\ ShowsFull(r)) => r.status = "completed"

\* C3: when mark_content_as_completed is interrupted by a crash between two of
\* its writes, the store holds no module with status = completed whose counts and
\* percentage do not show full completion, and no quiz-less module whose content
\* is all completed with aggregates at 100% while its status is not completed.
C3_CrashAtomic ==
    last.op = "crash" => \A r \in Rows(module_progress) : Consistent(r)

\* the same consistency in the states a call leaves when it returns Ok
C3_ConsistentOnReturn ==
    (NoneRunning /\ last.ok) => \A r \in Rows(module_progress) : Consistent(r)

----------------------------------------------------------------------------
(* C4: all-or-nothing on failure *)

\* C4: whenever mark_content_as_completed returns an error, content_progress,
\* module_progress and enrollments are exactly as they were before the call.
C4_AllOrNothing ==
    (NoneRunning /\ last.op = "mark_content_as_completed" /\ ~last.ok)
    => progress_tables = snapshot

----------------------------------------------------------------------------
(* C5: no lost updates under concurrency *)

\* C5: however the statements of two mark_content_as_completed calls of the same
\* (enrollment, module) interleave, once the calls have returned the module's
\* completed_content_count is the number of completed ContentProgress rows of
\* the module, and its status is completed iff the auto-completion predicate
\* holds.
C5_NoLostUpdate ==
    (NoneRunning /\ last.op = "mark_content_as_completed" /\ last.ok)
    => \A r \in Rows(module_progress) :
          /\ r.completed_content_count = Done(content_progress)
          /\ r.status = "completed" <=> Predicate(content_progress, quiz_attempts)

----------------------------------------------------------------------------
(* C6: the two-block scenario *)

Refreshed == \A e \in enrollments' : e.id = "e1" => e.updated_at = Some(last'.now)

AfterBlock2 ==
    (Done(content_progress) = 1 /\ Done(content_progress') = 2)
    => /\ \A r \in Rows(module_progress') :
              /\ r.content_completion_percentage = 100
              /\ r.status = "completed"
              /\ r.auto_completed
       /\ Refreshed

InScenario ==
    /\ Called("mark_content_as_completed")
    /\ Blocks = 2
    /\ ~has_quiz("m1")
    /\ Rows(module_progress) # {}

\* C6 as claimed: after block1 the module has percentage = 50 and
\* status = in_progress whatever its status was before; after block2 it has
\* percentage = 100, status = completed, auto_completed, and enrollment.updated_at
\* is the call's timestamp
C6_ScenarioAsClaimed ==
    [][InScenario =>
        /\ (Done(content_progress) = 0 /\ Done(content_progress') = 1)
           => \A r \in Rows(module_progress') :
                  r.content_completion_percentage = 50 /\ r.status = "in_progress"
        /\ AfterBlock2]_vars

\* C6 (amended): enrollment E has module M with 2 content blocks and no quiz;
\* after mark_content_as_completed(block1) the module has percentage = 50 and the
\* call has left its status as it was (in_progress only if it was in_progress);
\* after mark_content_as_completed(block2) it has percentage = 100,
\* status = completed, auto_completed = true and enrollment.updated_at is the
\* call's timestamp, whatever the status was before.
C6_Scenario ==
    [][InScenario =>
        /\ (Done(content_progress) = 0 /\ Done(content_progress') = 1)
           => \A r \in Rows(module_progress') :
                  /\ r.content_completion_percentage = 50
                  /\ \E q \in Rows(module_progress) : q.id = r.id /\ q.status = r.status
        /\ AfterBlock2]_vars

C6_Witness ==
    /\ Blocks = 2
    /\ ~has_quiz("m1")
    /\ last.op = "mark_content_as_completed" /\ last.ok /\ last.arg = <<2>>
    /\ \E r \in content_progress : r.content_id = 1 /\ r.completed_at = Some(0)
    /\ \E r \in content_progress : r.content_id = 2 /\ r.completed_at = Some(1)
    /\ \E r \in Rows(module_progress) :
          /\ r.status = "completed" /\ r.auto_completed
          /\ r.content_completion_percentage = 100
          /\ r.completed_at = Some(1)
    /\ \E e \in enrollments : e.id = "e1" /\ e.updated_at = Some(1)

----------------------------------------------------------------------------
(* C7: idempotence of completion *)

WithoutCompletedAt(table) == {[r EXCEPT !.completed_at = Null] : r \in table}

\* C7: a second mark_content_as_completed on the same content item leaves the
\* store as the first call left it, timestamps aside: the item's row is still
\* the one row of its (enrollment, content) pair with is_completed = true, and
\* the module's count, percentage and status are the same.
C7_Idempotent ==
    [][(last'.again /\ last'.op = "mark_content_as_completed")
       => /\ WithoutCompletedAt(content_progress') = WithoutCompletedAt(content_progress)
          /\ WithoutCompletedAt(module_progress') = WithoutCompletedAt(module_progress)
          /\ \A r \in existing(content_progress', "e1", last'.arg[1]) : r.is_completed
          /\ Cardinality(existing(content_progress', "e1", last'.arg[1])) = 1]_vars

C7_Witness ==
    /\ last.again /\ last.op = "mark_content_as_completed"
    /\ last.now = 1
    /\ \E r \in content_progress : r.content_id = last.arg[1] /\ r.completed_at = Some(1)
    /\ \E r \in Rows(module_progress) : r.completed_content_count = 1

----------------------------------------------------------------------------
(* C8: monotonicity of is_completed *)

\* C8: over every sequence of mark_content_as_viewed and mark_content_as_completed
\* calls, a content item whose row has is_completed = true keeps a row with
\* is_completed = true.
C8_Monotone ==
    [][\A r \in content_progress :
          r.is_completed =>
             /\ existing(content_progress', r.enrollment_id, r.content_id) # {}
             /\ \A q \in existing(content_progress', r.enrollment_id, r.content_id) :
                   q.is_completed]_vars

C8_Witness ==
    /\ last.op = "mark_content_as_viewed" /\ last.ok
    /\ \E r \in content_progress :
          /\ r.content_id = last.arg[1]
          /\ r.is_completed
          /\ r.viewed_at = Some(1) /\ r.completed_at = Some(0)

----------------------------------------------------------------------------
(* C9: viewing preserves completion *)

----------------------------------------------------------------------------
(* C10: module status never regresses *)

Rank(status) ==
    IF status = "not_started" THEN 0 ELSE IF status = "in_progress" THEN 1 ELSE 2

\* C10: over every sequence of update_module_status, save_module_progress and
\* mark_content_as_completed calls, the status of a ModuleProgress row only
\* moves forward along not_started -> in_progress -> completed.
C10_NoRegression ==
    [][\A r \in module_progress, q \in module_progress' :
          r.id = q.id => Rank(q.status) >= Rank(r.status)]_vars

----------------------------------------------------------------------------
(* C11: the auto-completion write on a module that is already completed *)

\* C11: when the auto-completion predicate holds after a successful
\* mark_content_as_completed but the module's ModuleProgress row was already
\* completed before the call, the call leaves status, completed_at and
\* auto_completed of that row unchanged.
C11_GuardedWrite ==
    [][(/\ Called("mark_content_as_completed")
        /\ Predicate(content_progress', quiz_attempts'))
       => \A r \in Rows(module_progress), q \in Rows(module_progress') :
             r.status = "completed"
             => /\ q.status = r.status
                /\ q.completed_at = r.completed_at
                /\ q.auto_completed = r.auto_completed]_vars

----------------------------------------------------------------------------
(* C12: completed_content_count <= total_content_count *)

\* C12: in every reachable state every ModuleProgress row has
\* completed_content_count <= total_content_count, whichever of
\* mark_content_as_completed and save_module_progress wrote it.
C12_CountsBounded ==
    \A r \in module_progress : r.completed_content_count <= r.total_content_count

\* the same bound on the rows as mark_content_as_completed leaves them
C12_BoundedAfterMark ==
    (last.op = "mark_content_as_completed" /\ last.ok) => C12_CountsBounded

----------------------------------------------------------------------------
(* C13: the aggregates after a completion call *)

\* the whole number nearest to 100 * completed / total, halves upward; 0 of 0
Rounded(pct, completed, total) ==
    IF total = 0 THEN pct = 0
    ELSE /\ 2 * total * pct <= 200 * completed + total
         /\ 200 * completed + total < 2 * total * (pct + 1)

\* C13: after every successful mark_content_as_completed on a module that has a
\* ModuleProgress row, total_content_count is the number of content blocks of the
\* module, completed_content_count is the number of the enrollment's completed
\* ContentProgress rows of the module, and content_completion_percentage is
\* round(completed / total * 100), 0 when total is 0.
C13_Aggregates ==
    (last.op = "mark_content_as_completed" /\ last.ok)
    => \A r \in Rows(module_progress) :
          /\ r.total_content_count = Cardinality(content_blocks)
          /\ r.completed_content_count =
                Cardinality({p \in content_progress :
                                p.enrollment_id = "e1" /\ p.is_completed})
          /\ Rounded(r.content_completion_percentage,
                     r.completed_content_count, r.total_content_count)

\* two of three blocks completed: 67 percent
C13_Witness ==
    /\ last.op = "mark_content_as_completed" /\ last.ok
    /\ \E r \in Rows(module_progress) :
          /\ r.total_content_count = 3
          /\ r.completed_content_count = 2
          /\ r.content_completion_percentage = 67

----------------------------------------------------------------------------
(* C14: not-found errors leave the progress tables alone *)

\* no content block of that id whose module row exists and whose course has an
\* enrollment of a stored user
Unresolvable(content_id) ==
    ~ \E b \in content_blocks, m \in modules, e \in enrollments, u \in users :
         /\ b.id = content_id
         /\ m.id = b.module_id
         /\ e.course_id = m.course_id
         /\ u.id = e.student_id

\* C14: mark_content_as_viewed and mark_content_as_completed return an error when
\* the content block, its module, or an enrollment for the module's course
\* cannot be resolved, and then no row of content_progress, module_progress or
\* enrollments is created or changed.
C14_NotFound ==
    [][(/\ last'.op \in {"mark_content_as_viewed", "mark_content_as_completed"}
        /\ Unresolvable(last'.arg[1]))
       => /\ ~last'.ok
          /\ UNCHANGED progress_tables]_vars

\* a call that failed on a missing module row, beside rows of an earlier session
C14_Witness ==
    /\ last.op = "mark_content_as_completed" /\ ~last.ok
    /\ last.arg = <<1>>
    /\ modules = {}
    /\ users # {} /\ enrollments # {}
    /\ content_progress # {} /\ module_progress # {}

----------------------------------------------------------------------------
(* C15: whose quiz attempt counts *)

\* a completed, passed attempt of student u1 (the student of e1) on q1 (the quiz
\* of m1)
OwnPass ==
    \E a \in quiz_attempts :
        /\ a.quiz_id = "q1"
        /\ a.student_id = "u1"
        /\ a.status = "completed"
        /\ a.passed

\* C15: a module with a quiz auto-completes iff, its content being all completed,
\* some attempt on the module's quiz by the student of the resolved enrollment
\* has status = completed and passed = true; a passing attempt of another
\* student, on another module's quiz, or not completed never completes it.
C15_OwnPassOnly ==
    \A r \in Rows(module_progress) :
        /\ r.status = "completed" => OwnPass
        /\ (/\ last.op = "mark_content_as_completed" /\ last.ok
            /\ Cardinality({p \in content_progress :
                               p.enrollment_id = "e1" /\ p.is_completed})
                 = Cardinality(content_blocks)
            /\ OwnPass) => r.status = "completed" /\ r.auto_completed

\* all content completed beside another student's passing attempt on q1: the
\* module is still in progress
C15_Witness ==
    /\ last.op = "mark_content_as_completed" /\ last.ok
    /\ all_content_completed(content_progress, "e1", "m1")
    /\ \E a \in quiz_attempts :
          /\ a.quiz_id = "q1" /\ a.student_id = "u2"
          /\ a.status = "completed" /\ a.passed
    /\ \E r \in Rows(module_progress) : r.status = "in_progress"

----------------------------------------------------------------------------
(* C16: the enrollment timestamp *)

\* C16: every successful mark_content_as_completed sets updated_at of the
\* resolved enrollment to the call's timestamp, whether or not the module
\* auto-completed and whether or not a ModuleProgress row exists, and changes
\* no other enrollment.
C16_TouchesOwnEnrollment ==
    (last.op = "mark_content_as_completed" /\ last.ok)
    => /\ \A e \in enrollments : e.id = "e1" => e.updated_at = Some(last.now)
       /\ \A e \in enrollments : e.id # "e1" => e \in CohortEnrollments
       /\ {e.id : e \in enrollments} = {"e1", "e2"}
       /\ Cardinality(enrollments) = 2

\* a call at time 1 on a module without a ModuleProgress row
C16_Witness ==
    /\ last.op = "mark_content_as_completed" /\ last.ok /\ last.now = 1
    /\ module_progress = {}
    /\ \E e \in enrollments : e.id = "e1" /\ e.updated_at = Some(1)

----------------------------------------------------------------------------
(* C17: outbox FIFO.  Rowids grow with every insert, so the enqueue order of
   the remaining items is the order of their ids. *)

\* list is the first `limit` rows of queue in enqueue order
FirstInEnqueueOrder(list, queue, limit) ==
    /\ Len(list) = IF limit < Cardinality(queue) THEN limit ELSE Cardinality(queue)
    /\ \A i \in 1 .. Len(list) :
          /\ list[i] \in queue
          /\ Cardinality({q \in queue : q.id < list[i].id}) = i - 1

\* C17: after any sequence of enqueue, ack and nack, get_sync_queue(limit)
\* returns the first `limit` remaining items in enqueue order, also when items
\* were enqueued within the same clock second (equal created_at).
C17_Fifo ==
    last.op = "get_sync_queue"
    => FirstInEnqueueOrder(last.result, sync_queue, limit_value(last.arg[1]))

\* the same for queues whose items were all enqueued at different seconds
C17_FifoAcrossSeconds ==
    (/\ last.op = "get_sync_queue"
     /\ \A r \in sync_queue, q \in sync_queue : r.created_at = q.created_at => r = q)
    => FirstInEnqueueOrder(last.result, sync_queue, limit_value(last.arg[1]))

----------------------------------------------------------------------------
(* C18: how an item leaves the outbox *)

\* the step is an ack naming id
AckOf(id) ==
    \/ /\ last'.op = "remove_from_sync_queue"
       /\ last'.arg[1] = id
    \/ /\ last'.op = "remove_multiple_from_sync_queue"
       /\ \E i \in 1 .. Len(last'.arg[1]) : last'.arg[1][i] = id

Leaves(r) == \A q \in sync_queue' : q.id # r.id

----------------------------------------------------------------------------
(* C19: nack *)

Ids(list) == [i \in 1 .. Len(list) |-> list[i].id]

\* C19: update_sync_queue_retry on a queued item increments its retry_count by
\* exactly 1, stores the given error_message, and leaves the item in the queue
\* at its position: created_at, payload and the order of the queue are
\* unchanged, and no other item is changed.
C19_Nack ==
    [][last'.op = "update_sync_queue_retry"
       => \A r \in sync_queue :
             r.id = last'.arg[1]
             => \E q \in sync_queue' :
                   /\ q.id = r.id
                   /\ q.retry_count = r.retry_count + 1
                   /\ q.error_message = last'.arg[2]
                   /\ q.created_at = r.created_at
                   /\ q.operation_type = r.operation_type
                   /\ q.table_name = r.table_name
                   /\ q.record_id = r.record_id
                   /\ q.data = r.data
                   /\ sync_queue' \ {q} = sync_queue \ {r}
                   /\ Ids(order_by_created_at(sync_queue'))
                        = Ids(order_by_created_at(sync_queue))]_vars

\* item 1 of two nacked at second 1 with a message
C19_Witness ==
    /\ last.op = "update_sync_queue_retry"
    /\ last.arg = <<1, Some("timeout")>>
    /\ last.now = 1
    /\ \E r \in sync_queue :
          /\ r.id = 1 /\ r.retry_count = 1 /\ r.created_at = 0
          /\ r.error_message = Some("timeout")
    /\ \E r \in sync_queue : r.id = 2 /\ r.retry_count = 0 /\ r.created_at = 0

----------------------------------------------------------------------------
(* C20: dequeue is read-only *)

\* C20: get_sync_queue and get_sync_queue_by_table remove and modify no queue
\* item, and a dequeue that follows the same dequeue with no operation between
\* them returns the same list.
C20_ReadOnly ==
    [][last'.op \in Dequeues
       => /\ sync_queue' = sync_queue
          /\ (last.op = last'.op /\ last.arg = last'.arg)
             => last'.result = last.result]_vars

\* a second get_sync_queue in a row on a queue of two items
C20_Witness ==
    /\ last.op = "get_sync_queue" /\ last.again
    /\ Len(last.result) = 2
    /\ Cardinality(sync_queue) = 2

----------------------------------------------------------------------------
(* C21: enqueue is a pure append *)

SamePayload(r, q) ==
    /\ r.operation_type = q.operation_type
    /\ r.table_name = q.table_name
    /\ r.record_id = q.record_id
    /\ r.data = q.data

\* C21: every add_to_sync_queue call adds exactly one new item, with
\* retry_count = 0, and changes no existing item, also when an item of the same
\* operation_type, table_name, record_id and payload is already queued; a
\* dequeue without limit returns every queued item.
C21_PureAppend ==
    [][/\ last'.op = "add_to_sync_queue"
          => \E n \in sync_queue' :
                /\ n \notin sync_queue
                /\ \A r \in sync_queue : r.id # n.id
                /\ n.retry_count = 0
                /\ n.table_name = last'.arg[1]
                /\ sync_queue' = sync_queue \cup {n}
       /\ (last'.op = "get_sync_queue" /\ last'.arg[1] = Null)
          => {last'.result[i] : i \in 1 .. Len(last'.result)} = sync_queue']_vars

\* two queued items of the same payload, both returned by the dequeue
C21_Witness ==
    /\ last.op = "get_sync_queue" /\ last.arg = <<Null>>
    /\ Len(last.result) = 2
    /\ last.result[1].id # last.result[2].id
    /\ SamePayload(last.result[1], last.result[2])
    /\ \A i \in 1 .. 2 : last.result[i] \in sync_queue

----------------------------------------------------------------------------
(* C22: ack and nack of an id that is not queued *)

\* C22: remove_from_sync_queue and update_sync_queue_retry on an id that is not
\* in the outbox return an error and leave the queue unchanged.
C22_NotFound ==
    [][(/\ last'.op \in {"remove_from_sync_queue", "update_sync_queue_retry"}
        /\ \A r \in sync_queue : r.id # last'.arg[1])
       => /\ ~last'.ok
          /\ sync_queue' = sync_queue]_vars

\* the queue is unchanged by such a call, whatever it returns
C22_QueueUnchanged ==
    [][(/\ last'.op \in {"remove_from_sync_queue", "update_sync_queue_retry"}
        /\ \A r \in sync_queue : r.id # last'.arg[1])
       => sync_queue' = sync_queue]_vars

----------------------------------------------------------------------------
(* C23: the derived validity of an offline session *)

\* now > expires_at, for an expires_at that is an instant
Past(r, now) == r.expires_at # Null /\ now > r.expires_at[1]

\* C23: the is_expired a read reports is (now > expires_at) and its is_valid is
\* (not is_deleted and not is_expired), so a session past its expires_at that is
\* not deleted reads is_expired = true, is_valid = false; and after
\* delete_offline_session the session reads is_valid = false at any instant.
C23_Validity ==
    /\ last.op = "get_offline_session_by_id"
       => \A x \in last.result :
             /\ x.row \in offline_sessions
             /\ x.is_expired = Past(x.row, last.now)
             /\ x.is_valid = (~x.row.is_deleted /\ ~x.is_expired)
    /\ last.op = "delete_offline_session"
       => \A now \in 0 .. MaxClock :
             \A x \in select_session(offline_sessions, last.arg[1], now) : ~x.is_valid

\* a read at instant 1 of a session that expired at 0 and is not deleted
C23_Witness ==
    /\ last.op = "get_offline_session_by_id" /\ last.ok /\ last.now = 1
    /\ \E x \in last.result :
          /\ x.row.expires_at = Some(0) /\ ~x.row.is_deleted
          /\ x.is_expired /\ ~x.is_valid

----------------------------------------------------------------------------
(* C24: what delete_expired_offline_sessions acts on *)

OutsideWindow(r) == r.expires_at # Null /\ r.expires_at[1] < last'.now - last'.arg[1]

----------------------------------------------------------------------------
(* C25: an expired session that is not deleted keeps its row *)

\* C25: no call other than hard_delete_offline_session removes the row of a
\* session that is expired and not soft-deleted; after
\* delete_expired_offline_sessions it is still read by get_offline_session_by_id.
C25_RowKept ==
    [][last'.op # "hard_delete_offline_session"
       => \A r \in offline_sessions :
             (~r.is_deleted /\ Past(r, clock))
             => select_session(offline_sessions', r.id, clock') # {}]_vars

\* a purge that flagged an expired session, whose row is still stored
C25_Witness ==
    /\ last.op = "delete_expired_offline_sessions" /\ last.arg = <<0>>
    /\ last.result = 1
    /\ \E r \in offline_sessions : r.is_deleted /\ Past(r, last.now)

----------------------------------------------------------------------------
(* C26: the lifecycle of a session *)

Stored(sessions, id) == \E r \in sessions : r.id = id

\* C26: a soft-deleted session stays soft-deleted, and a session id without a
\* row stays without one, under every call other than save_offline_session
\* (update_offline_session_sync_info, delete_offline_session and
\* delete_expired_offline_sessions keep is_deleted = 1).
C26_Lifecycle ==
    [][last'.op # "save_offline_session"
       => /\ \A r \in offline_sessions, q \in offline_sessions' :
                (r.is_deleted /\ q.id = r.id) => q.is_deleted
          /\ \A id \in SessionIds :
                ~Stored(offline_sessions, id) => ~Stored(offline_sessions', id)]_vars

\* a sync update of a soft-deleted session: counted, still deleted
C26_Witness ==
    /\ last.op = "update_offline_session_sync_info" /\ last.arg = <<"s1">>
    /\ \E r \in offline_sessions : r.id = "s1" /\ r.is_deleted /\ r.sync_count = 1
    /\ ~Stored(offline_sessions, "s2")

----------------------------------------------------------------------------
(* C27: deleting and reading a session that does not exist *)

\* C27: delete_offline_session and hard_delete_offline_session on an id without
\* a row return Ok and leave every stored session as it was, a second
\* delete_offline_session of a deleted session changes nothing but its
\* updated_at, and
\* get_offline_session_by_id on an id without a row returns an error.
C27_AbsentSession ==
    [][/\ (/\ last'.op \in {"delete_offline_session", "hard_delete_offline_session"}
           /\ ~Stored(offline_sessions, last'.arg[1]))
          => (last'.ok /\ offline_sessions' = offline_sessions)
       /\ (/\ last'.op = "delete_offline_session"
           /\ \A r \in offline_sessions : r.id = last'.arg[1] => r.is_deleted)
          => /\ last'.ok
             /\ {[r EXCEPT !.updated_at = Null] : r \in offline_sessions'}
                  = {[r EXCEPT !.updated_at = Null] : r \in offline_sessions}
       /\ (/\ last'.op = "get_offline_session_by_id"
           /\ ~Stored(offline_sessions, last'.arg[1]))
          => ~last'.ok]_vars

\* a hard delete of s2, which has no row, beside the stored session s1
C27_Witness ==
    /\ last.op = "hard_delete_offline_session" /\ last.arg = <<"s2">> /\ last.ok
    /\ Stored(offline_sessions, "s1")
    /\ ~Stored(offline_sessions, "s2")
    /\ \E r \in offline_sessions : r.sync_count = 1

----------------------------------------------------------------------------
(* C28: soft-deleted sessions in the listing and the count *)

\* C28: get_student_offline_sessions returns no soft-deleted session, whatever
\* active_only is, and with active_only no expired one;
\* count_active_offline_sessions counts the sessions (of the student, if one is
\* given) that are not soft-deleted and whose expires_at is an instant not
\* before now, and so no soft-deleted and no expired one.
C28_ActiveQueries ==
    /\ last.op = "get_student_offline_sessions"
       => \A x \in last.result :
             /\ x.row \in offline_sessions
             /\ ~x.row.is_deleted
             /\ last.arg[3] => ~Past(x.row, last.now)
    /\ last.op = "count_active_offline_sessions"
       => last.result =
             Cardinality({r \in offline_sessions :
                             /\ ~r.is_deleted
                             /\ r.expires_at # Null /\ ~Past(r, last.now)
                             /\ last.arg[1] = Null \/ <<r.student_id>> = last.arg[1]})

\* the listing without active_only of a student whose only session is
\* soft-deleted
C28_Witness ==
    /\ last.op = "get_student_offline_sessions"
    /\ last.arg = <<"u1", Null, FALSE>>
    /\ \E r \in offline_sessions : r.student_id = "u1" /\ r.is_deleted
    /\ last.result = {}

----------------------------------------------------------------------------
(* C29: the sync update *)

\* C29: update_offline_session_sync_info on a stored session adds exactly 1 to
\* its sync_count and sets last_synced_at to the call's instant; is_deleted,
\* expires_at and every other session are unchanged.
C29_TouchSync ==
    [][last'.op = "update_offline_session_sync_info"
       => \A r \in offline_sessions :
             r.id = last'.arg[1]
             => \E q \in offline_sessions' :
                   /\ q.id = r.id
                   /\ q.sync_count = r.sync_count + 1
                   /\ q.last_synced_at = Some(last'.now)
                   /\ q.is_deleted = r.is_deleted
                   /\ q.expires_at = r.expires_at
                   /\ q.student_id = r.student_id
                   /\ q.course_id = r.course_id
                   /\ q.updated_at = Some(last'.now)
                   /\ offline_sessions' \ {q} = offline_sessions \ {r}]_vars

\* the second sync update of s1, at instant 1, beside an untouched s2
C29_Witness ==
    /\ last.op = "update_offline_session_sync_info" /\ last.arg = <<"s1">>
    /\ last.now = 1
    /\ \E r \in offline_sessions :
          r.id = "s1" /\ r.sync_count = 2 /\ r.last_synced_at = Some(1)
    /\ \E r \in offline_sessions :
          r.id = "s2" /\ r.sync_count = 0 /\ r.last_synced_at = Null

----------------------------------------------------------------------------
(* C30: download progress is monotonic and bounded *)

\* C30: over save_media_cache and update_media_download_progress calls for one
\* media_id, download_progress stays within 0..100 and never decreases, and
\* is_downloaded, once true, stays true.
C30_MonotoneBounded ==
    [][last'.op \in {"save_media_cache", "update_media_download_progress"}
       => /\ \A q \in media_cache' : q.download_progress \in 0 .. 100
          /\ \A r \in media_cache, q \in media_cache' :
                q.media_id = r.media_id
                => /\ q.download_progress >= r.download_progress
                   /\ r.is_downloaded => q.is_downloaded]_vars

----------------------------------------------------------------------------
(* C31: attempt numbers per student and quiz *)

\* C31: an attempt recorded by save_quiz_attempt under a new id has an
\* attempt_number greater than that of every stored attempt of the same student
\* and quiz.
C31_StrictlyIncreasing ==
    [][last'.op = "save_quiz_attempt"
       => \A q \in quiz_attempts' :
             (q.id = last'.arg[1] /\ \A r \in quiz_attempts : r.id # q.id)
             => \A r \in quiz_attempts :
                   (r.student_id = q.student_id /\ r.quiz_id = q.quiz_id)
                   => q.attempt_number > r.attempt_number]_vars

----------------------------------------------------------------------------
(* C32: is_completed under every writer of content_progress *)

\* C32: no call of mark_content_as_viewed, mark_content_as_completed or
\* save_content_progress leaves a completed (enrollment, content) pair without
\* a row that is completed and has its completed_at.
C32_CompletionKept ==
    [][\A r \in content_progress :
          r.is_completed
          => \E q \in content_progress' :
                /\ q.enrollment_id = r.enrollment_id /\ q.content_id = r.content_id
                /\ q.is_completed
                /\ r.completed_at # Null => q.completed_at # Null]_vars

----------------------------------------------------------------------------
(* C34: one content_progress row per (enrollment, content) *)

\* C34: after any sequence of mark_content_as_viewed, mark_content_as_completed
\* and save_content_progress calls no two content_progress rows have the same
\* (enrollment_id, content_id).
C34_OneRowPerPair ==
    \A r \in content_progress, q \in content_progress :
        (r.enrollment_id = q.enrollment_id /\ r.content_id = q.content_id) => r = q

\* a row saved under the caller's own id took the place of the row that
\* mark_content_as_completed had written for the pair
C34_Witness ==
    /\ last.op = "save_content_progress"
    /\ last.arg = <<1, <<"id", "x", 0>>, FALSE>>
    /\ \E r \in content_progress : r.content_id = 1 /\ r.id = <<"id", "x", 0>>
    /\ \A r \in content_progress : r.content_id = 1
    /\ \E r \in module_progress : r.completed_content_count = 1

----------------------------------------------------------------------------
(* C33: progress goes to the latest-created enrollment of the course *)

\* the rows of a table that do not belong to enrollment e
NotOf(table, e) == {r \in table : r.enrollment_id # e}

\* C33: every successful mark_content_as_viewed / mark_content_as_completed on
\* a course with two enrollments writes the content_progress row and the
\* updated_at of one enrollment that no enrollment of the course was created
\* after, and changes no enrollments, content_progress or module_progress row
\* of the other enrollment.
C33_LatestEnrollmentOnly ==
    [][(/\ last'.op \in {"mark_content_as_viewed", "mark_content_as_completed"}
        /\ last'.ok)
       => \E e \in enrollments :
             /\ \A o \in enrollments : o.created_at <= e.created_at
             /\ \E q \in enrollments' : q.id = e.id /\ q.updated_at = Some(last'.now)
             /\ \E r \in content_progress' :
                   /\ r.enrollment_id = e.id /\ r.content_id = last'.arg[1]
                   /\ Some(last'.now) \in {r.viewed_at, r.completed_at}
             /\ {o \in enrollments' : o.id # e.id} = {o \in enrollments : o.id # e.id}
             /\ NotOf(content_progress', e.id) = NotOf(content_progress, e.id)
             /\ NotOf(module_progress', e.id) = NotOf(module_progress, e.id)]_vars

\* e1 was created after e2: a completion at instant 1 is recorded for e1, its
\* module_progress row counts it, and the rows of e2 are the ones of instant 0
C33_Witness ==
    /\ last.op = "mark_content_as_completed" /\ last.ok /\ last.now = 1
    /\ \E e \in enrollments : e.id = "e1" /\ e.created_at = 1 /\ e.updated_at = Some(1)
    /\ \E e \in enrollments : e.id = "e2" /\ e.updated_at = Null
    /\ \E r \in content_progress : r.enrollment_id = "e1" /\ r.completed_at = Some(1)
    /\ OtherProgressRow \in content_progress
    /\ \E r \in module_progress : r.enrollment_id = "e1" /\ r.completed_content_count = 1
    /\ \E r \in module_progress : r.enrollment_id = "e2" /\ r.completed_content_count = 0

----------------------------------------------------------------------------
(* C35: mark_content_as_completed creates no module_progress row *)

MpPairs(mp) == {<<r.enrollment_id, r.module_id>> : r \in mp}

\* C35: every mark_content_as_completed call leaves the set of (enrollment,
\* module) pairs that have a module_progress row, and the number of rows, as
\* they were; a call that finds no row still returns Ok, has written the
\* completed content_progress row and the enrollment's updated_at, and
\* module_progress is still empty.
C35_NoRowCreated ==
    [][last'.op = "mark_content_as_completed"
       => /\ MpPairs(module_progress') = MpPairs(module_progress)
          /\ Cardinality(module_progress') = Cardinality(module_progress)
          /\ (module_progress = {} /\ Resolve(last'.arg[1]) # {})
             => /\ last'.ok
                /\ module_progress' = {}
                /\ \E r \in content_progress' :
                      /\ r.enrollment_id = "e1" /\ r.content_id = last'.arg[1]
                      /\ r.is_completed /\ r.completed_at = Some(last'.now)
                /\ \A e \in enrollments' :
                      e.id = "e1" => e.updated_at = Some(last'.now)]_vars

\* every block of the module is completed, the last one at instant 1, and there
\* is no module_progress row to show it
C35_Witness ==
    /\ last.op = "mark_content_as_completed" /\ last.ok /\ last.now = 1
    /\ module_progress = {}
    /\ all_content_completed(content_progress, "e1", "m1")
    /\ Cardinality(content_blocks) = MaxBlocks
    /\ \A e \in enrollments : e.updated_at = Some(1)

----------------------------------------------------------------------------
(* C36: what an auto-completed module_progress row shows *)

\* C36: with only mark_content_as_viewed / mark_content_as_completed running,
\* every module_progress row with auto_completed = true has status 'completed',
\* completed_content_count = total_content_count, percentage 100, and its
\* module has no quiz or a completed, passed attempt of the enrolled student.
C36_AutoCompletedRows ==
    \A r \in module_progress :
        r.auto_completed
        => /\ r.status = "completed"
           /\ r.completed_content_count = r.total_content_count
           /\ r.content_completion_percentage = 100
           /\ \/ ~has_quiz(r.module_id)
              \/ \E a \in quiz_attempts, q \in quizzes, e \in enrollments :
                    /\ q.module_id = r.module_id /\ a.quiz_id = q.id
                    /\ e.id = r.enrollment_id /\ a.student_id = e.student_id
                    /\ a.status = "completed" /\ a.passed

\* an auto-completed row of a module with a quiz and MaxBlocks blocks
C36_Witness ==
    /\ \E r \in module_progress :
          r.auto_completed /\ r.completed_content_count = MaxBlocks
    /\ has_quiz("m1")
    /\ last.op = "mark_content_as_completed"

----------------------------------------------------------------------------
(* C37: the frame of mark_content_as_viewed *)

\* C37: mark_content_as_viewed changes no module_progress row and no
\* content_progress row other than the one of the viewed (enrollment, content)
\* pair; the row of an item that was not completed is there afterwards with
\* is_completed = false.
C37_ViewFrame ==
    [][last'.op = "mark_content_as_viewed"
       => /\ module_progress' = module_progress
          /\ \A r \in content_progress :
                r.content_id # last'.arg[1] => r \in content_progress'
          /\ \A q \in content_progress' :
                q.content_id # last'.arg[1] => q \in content_progress
          /\ (/\ last'.ok
              /\ \A r \in content_progress :
                    (r.enrollment_id = "e1" /\ r.content_id = last'.arg[1])
                    => ~r.is_completed)
             => \E q \in content_progress' :
                   /\ q.enrollment_id = "e1" /\ q.content_id = last'.arg[1]
                   /\ ~q.is_completed /\ q.completed_at = Null
                   /\ q.viewed_at = Some(last'.now)]_vars

\* every block of the module has been viewed and none is completed; the
\* module_progress row still counts nothing
C37_Witness ==
    /\ last.op = "mark_content_as_viewed" /\ last.ok
    /\ Cardinality(content_progress) = MaxBlocks
    /\ \A r \in content_progress : ~r.is_completed /\ r.viewed_at # Null
    /\ \E r \in module_progress :
          r.status = "in_progress" /\ r.completed_content_count = 0

----------------------------------------------------------------------------
(* C38: retry_count counts the nacks *)

\* C38: an item enters the queue with retry_count 0; update_sync_queue_retry on
\* it adds exactly 1, one for each call, and every other call (enqueue,
\* dequeue, acks and nacks of other items) leaves the retry_count of every item
\* that stays in the queue as it was: the count is the number of nacks applied
\* to the item since it was enqueued.
C38_CountsNacks ==
    [][/\ \A q \in sync_queue' :
             (\A r \in sync_queue : r.id # q.id) => q.retry_count = 0
       /\ \A r \in sync_queue, q \in sync_queue' :
             q.id = r.id
             => q.retry_count =
                   IF last'.op = "update_sync_queue_retry" /\ last'.arg[1] = r.id
                   THEN r.retry_count + 1
                   ELSE r.retry_count]_vars

\* item 1 has been nacked twice, item 2, enqueued beside it, never
C38_Witness ==
    /\ last.op = "update_sync_queue_retry" /\ last.arg[1] = 1
    /\ \E r \in sync_queue : r.id = 1 /\ r.retry_count = 2
    /\ \E r \in sync_queue : r.id = 2 /\ r.retry_count = 0

----------------------------------------------------------------------------
(* C39: progress batches *)

\* the rows of a list, as a set
RowsOf(list) == {list[i] : i \in 1 .. Len(list)}

\* C39: a batch is created with synced = 0 and no synced_at;
\* get_unsynced_progress_batches returns stored batches with synced = 0 only,
\* by created_at from the oldest on, the oldest ones when a limit cuts the list;
\* no call turns synced = 1 back into 0; and a batch leaves the table only by
\* delete_synced_progress_batches, when it is synced and its synced_at is more
\* than days_old days past, so that an unsynced batch is never deleted.
C39_Batches ==
    [][/\ \A q \in offline_progress_batch' :
             (\A r \in offline_progress_batch : r.id # q.id)
             => (~q.synced /\ q.synced_at = Null)
       /\ last'.op = "get_unsynced_progress_batches"
          => LET list == last'.result
                 unsynced == {r \in offline_progress_batch : ~r.synced}
             IN  /\ RowsOf(list) \subseteq unsynced
                 /\ Cardinality(RowsOf(list)) = Len(list)
                 /\ \A i \in 1 .. Len(list), j \in 1 .. Len(list) :
                       i < j => list[i].created_at <= list[j].created_at
                 /\ \A r \in unsynced \ RowsOf(list) :
                       /\ Len(list) = batch_limit_value(last'.arg[1])
                       /\ \A i \in 1 .. Len(list) : list[i].created_at <= r.created_at
                 /\ offline_progress_batch' = offline_progress_batch
       /\ \A r \in offline_progress_batch, q \in offline_progress_batch' :
             (q.id = r.id /\ r.synced) => q.synced
       /\ \A r \in offline_progress_batch :
             (\A q \in offline_progress_batch' : q.id # r.id)
             => /\ last'.op = "delete_synced_progress_batches"
                /\ r.synced
                /\ r.synced_at[1] < last'.now - last'.arg[1]]_vars

\* the purge at instant 1 has removed the batch that was synced at instant 0;
\* the unsynced batch, as old as the one removed, is still stored
C39_Witness ==
    /\ last.op = "delete_synced_progress_batches" /\ last.arg = <<0>>
    /\ last.now = 1 /\ last.result = 1
    /\ Cardinality(offline_progress_batch) = 1
    /\ \E r \in offline_progress_batch : ~r.synced /\ r.created_at = 0

----------------------------------------------------------------------------
(* C40: the counts of sessions agree *)

\* the three counts the claim compares, for student u at instant now
Counted(u, now) == count_active(offline_sessions, Some(u), now)
Listed(u, now) ==
    Cardinality(select_student_sessions(offline_sessions, u, Null, TRUE, now))
Valid(u, now) ==
    Cardinality({r \in offline_sessions : r.student_id = u /\ is_valid(r, now)})

\* C40: what count_active_offline_sessions(student) returns is the number of
\* sessions get_student_offline_sessions(student, no course, active_only)
\* returns and the number of the student's sessions that read is_valid = true;
\* and get_offline_session_statistics returns total_sessions = active_sessions
\* + expired_sessions.
C40_CountsAgree ==
    /\ last.op = "count_active_offline_sessions"
       => /\ last.result = Counted(last.arg[1][1], last.now)
          /\ last.result = Listed(last.arg[1][1], last.now)
          /\ last.result = Valid(last.arg[1][1], last.now)
    /\ last.op = "get_offline_session_statistics"
       => last.result.total_sessions
             = last.result.active_sessions + last.result.expired_sessions

\* the counts agree while every stored expires_at is the text of an instant
C40_AgreeOnInstants ==
    (\A r \in offline_sessions : r.expires_at # Null) => C40_CountsAgree

====
